---- MODULE Spec2Model ----
(***************************************************************************)
(* Eru Email Sender Pro (src/main.py): the address validator, the load-    *)
(* time batch filter, the EmailWorker dispatch thread (connect, first      *)
(* pass, retry passes, cooperative stop) and the EmailApp slots that start *)
(* and stop a job and consume the worker's signals.  Some functions are    *)
(* also followed on their own: one call of _send_single_email statement by *)
(* statement, the progress count of the first pass, validate_email,        *)
(* validate_emails_in_dataframe, the subject and body texts of a message,  *)
(* and build_outlook_safe_html statement by statement.                     *)
(*                                                                         *)
(* Text is a sequence of one-character strings.  Positions in a batch are  *)
(* 1-based here; the zero-based position of the code is the position - 1.  *)
(* A row keeps the index label pandas gave it when the sheet was read      *)
(* (0, 1, 2, ... in sheet order).                                          *)
(***************************************************************************)
EXTENDS Integers, Sequences, FiniteSets, TLC

\* ------------------------------------------------------------------ bounds
MaxRows == 3            \* rows of a sheet handed to an isolated worker's batch
MaxRetriesBound == 3    \* largest max_retries an isolated worker is built with
AppMaxRows == 2         \* rows of a sheet the application loads
AppMaxRetries == 1      \* largest max_retries setting of the application
MaxJobs == 2            \* EmailWorker objects the application creates
MaxLoads == 1           \* sheets the application loads
QueueCap == 1           \* queued signal deliveries waiting for the main thread
MaxTotal == 50          \* largest batch whose progress values are computed

\* --------------------------------------------------------------- constants
ConnectAttempts == 5    \* range(5)

\* ---------------------------------------------------------------- text
Letters == {"a", "b", "c"}
Digits == {"1"}
Whitespace == {" "}
LocalChars == Letters \cup Digits \cup {".", "_", "%", "+", "-"}
DomainChars == Letters \cup Digits \cup {".", "-"}

RECURSIVE LStrip(_)
LStrip(s) == IF s # <<>> /\ Head(s) \in Whitespace THEN LStrip(Tail(s)) ELSE s

RECURSIVE RStrip(_)
RStrip(s) ==
    IF s # <<>> /\ s[Len(s)] \in Whitespace
    THEN RStrip(SubSeq(s, 1, Len(s) - 1))
    ELSE s

\* str.strip()
Strip(s) == RStrip(LStrip(s))

\* str.count(ch)
Count(s, ch) == Cardinality({k \in 1..Len(s) : s[k] = ch})

AllIn(s, lo, hi, chars) == \A k \in lo..hi : s[k] \in chars

\* re.match(r'^[a-zA-Z0-9._%+-]+@[a-zA-Z0-9.-]+\.[a-zA-Z]{2,}$', s)
MatchesPattern(s) ==
    \E at \in 2..Len(s) : \E dot \in (at + 2)..(Len(s) - 2) :
        /\ AllIn(s, 1, at - 1, LocalChars)
        /\ s[at] = "@"
        /\ AllIn(s, at + 1, dot - 1, DomainChars)
        /\ s[dot] = "."
        /\ AllIn(s, dot + 1, Len(s), Letters)

\* email.split('@') of a text with exactly one '@'
AtPos(s) == CHOOSE k \in 1..Len(s) : s[k] = "@"
LocalPart(s) == SubSeq(s, 1, AtPos(s) - 1)
DomainPart(s) == SubSeq(s, AtPos(s) + 1, Len(s))

\* validate_email with the '@' count tested before the pattern
validate_email_at_first(email) ==
    LET e == Strip(email) IN
    IF e = <<>> THEN <<FALSE, "empty">>
    ELSE IF Count(e, "@") # 1 THEN <<FALSE, "at">>
    ELSE IF ~MatchesPattern(e) THEN <<FALSE, "format">>
    ELSE IF Len(LocalPart(e)) = 0 THEN <<FALSE, "local">>
    ELSE IF Len(DomainPart(e)) = 0 THEN <<FALSE, "domain">>
    ELSE IF Head(DomainPart(e)) = "." \/ DomainPart(e)[Len(DomainPart(e))] = "."
         THEN <<FALSE, "dot">>
    ELSE <<TRUE, "">>

\* validate_email without the test of the domain's first and last character
validate_email_no_dot(email) ==
    LET e == Strip(email) IN
    IF e = <<>> THEN <<FALSE, "empty">>
    ELSE IF ~MatchesPattern(e) THEN <<FALSE, "format">>
    ELSE IF Count(e, "@") # 1 THEN <<FALSE, "at">>
    ELSE IF Len(LocalPart(e)) = 0 THEN <<FALSE, "local">>
    ELSE IF Len(DomainPart(e)) = 0 THEN <<FALSE, "domain">>
    ELSE <<TRUE, "">>

\* validate_email: <<is_valid, reason>>.  The reasons stand for the messages
\*   "empty"   "Email address is empty"
\*   "format"  f"Invalid email format: {email}"
\*   "at"      f"Email must contain exactly one @ symbol: {email}"
\*   "local"   "Local part of email is empty"
\*   "domain"  "Domain part of email is empty"
\*   "dot"     f"Domain cannot start or end with dot: {domain}"
validate_email(email) ==
    LET e == Strip(email) IN
    IF e = <<>> THEN <<FALSE, "empty">>
    ELSE IF ~MatchesPattern(e) THEN <<FALSE, "format">>
    ELSE IF Count(e, "@") # 1 THEN <<FALSE, "at">>
    ELSE IF Len(LocalPart(e)) = 0 THEN <<FALSE, "local">>
    ELSE IF Len(DomainPart(e)) = 0 THEN <<FALSE, "domain">>
    ELSE IF Head(DomainPart(e)) = "." \/ DomainPart(e)[Len(DomainPart(e))] = "."
         THEN <<FALSE, "dot">>
    ELSE <<TRUE, "">>

\* the message of a reason contains the character '@': the '@' rule's text
\* does, the format message does when the address it quotes does
MessageHasAt(reason, email) ==
    \/ reason = "at"
    \/ reason = "format" /\ Count(Strip(email), "@") > 0

\* ---------------------------------------------------------------- sheets
\* Addresses a sheet cell may hold.
GoodEmail == <<"a", "@", "b", ".", "c", "c">>
BadEmail == <<"a", "b">>
EmptyEmail == <<>>
SampleEmails == {GoodEmail, BadEmail, EmptyEmail}

\* pd.read_excel: row k of the sheet gets index label k - 1
ReadSheet(cells) == [k \in 1..Len(cells) |-> [label |-> k - 1, Email |-> cells[k]]]

RECURSIVE KeepRows(_, _)
KeepRows(rows, keep) ==
    IF rows = <<>> THEN <<>>
    ELSE IF Head(rows).label \in keep
         THEN <<Head(rows)>> \o KeepRows(Tail(rows), keep)
         ELSE KeepRows(Tail(rows), keep)

\* valid_indices that exempts only the cell that is empty as read
valid_indices_exact(rows) ==
    {rows[k].label : k \in {k \in 1..Len(rows) :
        validate_email(Strip(rows[k].Email))[1] \/ rows[k].Email = <<>>}}

\* the rows validate_emails_in_dataframe keeps: df.iloc[valid_indices].copy()
\* (the kept rows keep their index labels)
valid_indices(rows) ==
    {rows[k].label : k \in {k \in 1..Len(rows) :
        validate_email(Strip(rows[k].Email))[1] \/ Strip(rows[k].Email) = <<>>}}

\* the invalid_emails list: 'row': idx + 2
invalid_emails(rows) ==
    {[row |-> rows[k].label + 2, email |-> Strip(rows[k].Email),
      error |-> validate_email(Strip(rows[k].Email))[2]] :
        k \in {k \in 1..Len(rows) : rows[k].label \notin valid_indices(rows)}}

validate_emails_in_dataframe(rows) == KeepRows(rows, valid_indices(rows))

\* load_excel: the validated rows, each with Status "Pending"
LoadedBatch(cells) ==
    LET kept == validate_emails_in_dataframe(ReadSheet(cells)) IN
    [k \in 1..Len(kept) |-> [label |-> kept[k].label, Email |-> kept[k].Email,
                             Status |-> "Pending"]]

Sheets(n) == UNION {[1..m -> SampleEmails] : m \in 0..n}


\* ------------------------------------------------------------------ state
VARIABLES
    df,             \* EmailApp.df: the loaded batch (<<>> while nothing is loaded)
    loaded,         \* EmailApp.df is not None
    worker,         \* EmailApp.worker: 0 for None, else the latest EmailWorker
    workers,        \* every EmailWorker created so far, in creation order
    mainq,          \* queued status/finished signals waiting for the main thread
    start_button,   \* start_button.isEnabled()
    stop_button,    \* stop_button.isEnabled()
    loads,          \* sheets loaded so far
    call            \* the function call followed step by step, with its locals

vars == <<df, loaded, worker, workers, mainq, start_button, stop_button, loads, call>>

\* no function call is followed on its own
NoCall == [fn |-> "none"]

\* ---------------------------------------------------------- EmailWorker
\* EmailWorker.__init__.  The fields after `connected` are not the code's: a
\* traced worker records there what it has emitted and called; an untraced one
\* leaves them as they are.
NewWorker(batch, retries, isConnected, isTraced) ==
    [df |-> [k \in 1..Len(batch) |-> [label |-> batch[k].label, Email |-> batch[k].Email]],
     max_retries |-> retries,
     running |-> TRUE,
     pc |-> "start",
     outlook |-> FALSE,
     attempt |-> 0,
     total |-> 0,
     processed_count |-> 0,
     failed_emails |-> <<>>,
     retry_attempt |-> 0,
     still_failed |-> <<>>,
     pos |-> 0,
     rpos |-> 0,
     connected |-> isConnected,
     traced |-> isTraced,
     nFinished |-> 0,
     late |-> FALSE,
     lastLog |-> "none",
     logRow |-> 0,
     nRetrying |-> 0,
     nRetryAttempt |-> 0,
     summary |-> -1,
     callLog |-> <<>>,
     statusLog |-> <<>>,
     progressLog |-> <<>>,
     dispatches |-> 0,
     follow |-> FALSE,
     submitLog |-> <<>>,
     sleeps3 |-> 0,
     sleeps2 |-> 0,
     sawStop |-> FALSE,
     stoppedAt |-> -1,
     doneAfterStop |-> 0,
     exit |-> "none"]

\* a record kept only by a traced worker
Note(r, noted) == IF r.traced THEN noted ELSE r

\* signal emissions: anything emitted once finished_sending went out is late
\* log_updated.emit(...)
EmitLog(r, kind) ==
    Note(r, [r EXCEPT !.lastLog = kind,
                      !.nRetrying = IF kind = "retrying" THEN @ + 1 ELSE @,
                      !.nRetryAttempt = IF kind = "retryAttempt" THEN @ + 1 ELSE @,
                      !.late = @ \/ r.nFinished > 0])

\* log_updated.emit(f"No email for row {index + 2}"): logRow is the row number
\* the line shows
EmitNoEmail(r, index) == Note(r, [EmitLog(r, "noEmail") EXCEPT !.logRow = index + 2])

\* log_updated.emit(f"{len(failed_emails)} emails still failed after all retries")
EmitSummary(r, count) == Note(r, [EmitLog(r, "summary") EXCEPT !.summary = count])

\* status_updated.emit(index, status)
EmitStatus(r, index, status) ==
    Note(r, [r EXCEPT !.statusLog = Append(@, [index |-> index, status |-> status]),
                      !.late = @ \/ r.nFinished > 0])

\* progress_updated.emit(percent)
EmitProgress(r, percent) ==
    Note(r, [r EXCEPT !.progressLog = Append(@, percent), !.late = @ \/ r.nFinished > 0])

\* finished_sending.emit()
EmitFinished(r) == Note(r, [r EXCEPT !.nFinished = @ + 1])

\* time.sleep(3) after a failed connection attempt, time.sleep(2) after a pass
Sleep(r, seconds) ==
    Note(r, IF seconds = 3 THEN [r EXCEPT !.sleeps3 = @ + 1] ELSE [r EXCEPT !.sleeps2 = @ + 1])

\* win32com.client.Dispatch("Outlook.Application") is called
Dispatch(r) == Note(r, [r EXCEPT !.dispatches = @ + 1])

\* a cancellation check read running = False
SawStop(r) == Note(r, [r EXCEPT !.sawStop = TRUE])

\* ---- float arithmetic: processed_count / total and * 100 are IEEE-754
\* double operations, each rounded to 53 significant bits (to nearest, ties
\* to even).  A double between 0 and 128 is held as [hi, mid, lo, drop, z],
\* the pieces of its significand: its value is
\*     (hi * 2^35 + mid * 2^17 + lo * 2^drop) * 2^-(z + 53)
\* with mid < 2^18, lo < 2^(17 - drop) and 53 significant bits in all.
One == [hi |-> 2^17, mid |-> 0, lo |-> 0, drop |-> 0, z |-> -1]

\* the zero digits of r / t (r < t) between the binary point and its first one
RECURSIVE LeadingZeros(_, _)
LeadingZeros(r, t) == IF 2 * r >= t THEN 0 ELSE 1 + LeadingZeros(2 * r, t)

\* processed / total for 1 <= processed <= total (Python 3 true division):
\* long division gives the first 53 digits from the leading one (18 + 18 +
\* 17), the next digit and what is left decide the rounding
TrueDivide(processed, total) ==
    IF processed = total THEN One
    ELSE LET z == LeadingZeros(processed, total)
             n1 == (processed * 2^z) * 2^18
             n2 == (n1 % total) * 2^18
             n3 == (n2 % total) * 2^17
             n4 == (n3 % total) * 2
             hi == n1 \div total
             mid == n2 \div total
             lo == n3 \div total
             guard == n4 \div total
             sticky == (n4 % total) # 0
             up == IF guard = 1 /\ (sticky \/ (lo % 2) = 1) THEN 1 ELSE 0
             lo1 == lo + up
             mid1 == mid + (lo1 \div 2^17)
             hi1 == hi + (mid1 \div 2^18)
         IN  IF hi1 = 2^18
             THEN [hi |-> 2^17, mid |-> 0, lo |-> 0, drop |-> 0, z |-> z - 1]
             ELSE [hi |-> hi1, mid |-> mid1 % 2^18, lo |-> lo1 % 2^17, drop |-> 0, z |-> z]

\* x * 100 for a double x of 53 significant bits (drop = 0): the exact
\* product has 59 or 60 bits, of which the lowest 6 or 7 are rounded away
TimesHundred(x) ==
    LET lo100 == x.lo * 100
        mid100 == (x.mid * 100) + (lo100 \div 2^17)
        hi100 == (x.hi * 100) + (mid100 \div 2^18)
        drop == IF hi100 >= 2^24 THEN 7 ELSE 6
        low == (lo100 % 2^17) % 2^drop
        lo == (lo100 % 2^17) \div 2^drop
        guard == low \div 2^(drop - 1)
        sticky == (low % 2^(drop - 1)) # 0
        up == IF guard = 1 /\ (sticky \/ (lo % 2) = 1) THEN 1 ELSE 0
        lo1 == lo + up
        mid1 == (mid100 % 2^18) + (lo1 \div 2^(17 - drop))
    IN  [hi |-> hi100 + (mid1 \div 2^18), mid |-> mid1 % 2^18,
         lo |-> lo1 % 2^(17 - drop), drop |-> drop, z |-> x.z]

\* int(x) for 0 <= x < 128: the digits before the binary point, all in hi
Truncate(x) == x.hi \div 2^(x.z + 18)

\* int((processed_count / total) * 100)
Percent(processed, total) == Truncate(TimesHundred(TrueDivide(processed, total)))

\* the value of percent for every count of every batch size up to MaxTotal
\* (no batch of this model is larger), computed once
PercentTable == [t \in 1..MaxTotal |-> [k \in 1..t |-> Percent(k, t)]]

\* What one call of _send_single_email can do with a row: reject it (no
\* address, attachment file missing), send it, or catch a transport exception.
Outcomes(row) ==
    IF Strip(row.Email) = <<>> THEN {"noEmail"} ELSE {"sent", "noAttachment", "error"}

Success(outcome) == outcome = "sent"

\* A worker with `follow` set also tells whether the call that caught an
\* exception had submitted the message before: "errorAfterSend" is the catch
\* of an exception raised after mail.Send() returned, "error" then one raised
\* before that.
CallOutcomes(r, row) ==
    Outcomes(row) \cup
    (IF r.follow /\ Strip(row.Email) # <<>> THEN {"errorAfterSend"} ELSE {})

\* mail.Send() returned in the call on the row at position p
Submit(r, p, outcome) ==
    IF r.follow /\ outcome \in {"sent", "errorAfterSend"}
    THEN Note(r, [r EXCEPT !.submitLog = Append(@, p)])
    ELSE r

\* _send_single_email(outlook, outbox, sent, row, index): the worker after the
\* call of pass `pass` on the row at position p; index is the row's label
send_single_email(r, pass, p, outcome) ==
    LET index == r.df[p].label
        noted == Note(r, [r EXCEPT !.callLog = Append(@, [pass |-> pass, pos |-> p]),
                                   !.doneAfterStop = IF r.running THEN @ ELSE @ + 1])
        called == Submit(noted, p, outcome)
    IN  IF Success(outcome)
        THEN EmitLog(EmitStatus(called, index, "Sent"), "sentOk")
        ELSE IF outcome = "noEmail"
        THEN EmitNoEmail(EmitStatus(called, index, "Failed"), index)
        ELSE IF outcome = "errorAfterSend"
        THEN EmitLog(EmitStatus(called, index, "Failed"), "error")
        ELSE EmitLog(EmitStatus(called, index, "Failed"), outcome)

\* the status signal of that call, as queued for the main thread (pos, the
\* row's place in the worker's batch, is not part of the signal the slot gets)
StatusSignal(r, p, outcome) ==
    [kind |-> "status", index |-> r.df[p].label,
     status |-> IF Success(outcome) THEN "Sent" ELSE "Failed", pos |-> p]

FinishedSignal == [kind |-> "finished", index |-> 0, status |-> "none", pos |-> 0]

\* a queued connection posts the signal to the main thread; an unconnected
\* signal goes nowhere
Post(r, signal) == IF r.connected THEN Append(mainq, signal) ELSE mainq

CanPost(r) == ~r.connected \/ Len(mainq) < QueueCap

\* run() returns: its locals are gone
Returned(r) ==
    [r EXCEPT !.pc = "done", !.outlook = FALSE, !.attempt = 0, !.total = 0,
              !.processed_count = 0, !.failed_emails = <<>>, !.retry_attempt = 0,
              !.still_failed = <<>>, !.pos = 0, !.rpos = 0]

\* Finish without the return that follows finished_sending.emit()
FinishNoReturn(r, how) == Note(EmitFinished(r), [EmitFinished(r) EXCEPT !.exit = how])

\* the worker ends: finished_sending.emit() and run() returns
Finish(r, how) == Returned(Note(EmitFinished(r), [EmitFinished(r) EXCEPT !.exit = how]))

\* HandleFatal with the handler's finished_sending.emit() left out
HandleFatalSilent(r) ==
    Returned(Note(EmitLog(r, "fatal"), [EmitLog(r, "fatal") EXCEPT !.exit = "fatal"]))

\* except Exception as e: log FATAL ERROR, finished_sending.emit()
HandleFatal(r) == Finish(EmitLog(r, "fatal"), "fatal")

AppUnchanged == UNCHANGED <<df, loaded, worker, start_button, stop_button, loads, call>>

Set(w, r) == workers' = [workers EXCEPT ![w] = r]

\* import pythoncom; pythoncom.CoInitialize() returns
CoInitializeOk(w) ==
    LET r == workers[w] IN
    /\ r.pc = "start"
    /\ Set(w, [r EXCEPT !.pc = "connect"])
    /\ UNCHANGED mainq
    /\ AppUnchanged

\* the import or CoInitialize raises: the outer handler takes it
CoInitializeRaise(w) ==
    LET r == workers[w] IN
    /\ r.pc = "start"
    /\ CanPost(r)
    /\ Set(w, HandleFatal(r))
    /\ mainq' = Post(r, FinishedSignal)
    /\ AppUnchanged

\* The loop variable `attempt` is read only inside the connection loop; it is
\* kept while the loop runs and cleared when the loop is left.
\* win32com.client.Dispatch succeeds: log, break
ConnectOk(w) ==
    LET r == workers[w] IN
    /\ r.pc = "connect"
    /\ Set(w, [EmitLog(Dispatch(r), "connected") EXCEPT !.outlook = TRUE, !.attempt = 0,
                                               !.pc = "afterConnect"])
    /\ UNCHANGED mainq
    /\ AppUnchanged

\* Dispatch raises: log, time.sleep(3), next attempt or the end of range(5)
ConnectFail(w) ==
    LET r == workers[w] IN
    /\ r.pc = "connect"
    /\ Set(w, [Sleep(EmitLog(Dispatch(r), "attemptFailed"), 3) EXCEPT
                 !.attempt = IF r.attempt + 1 = ConnectAttempts THEN 0 ELSE @ + 1,
                 !.pc = IF r.attempt + 1 = ConnectAttempts THEN "afterConnect" ELSE "connect"])
    /\ UNCHANGED mainq
    /\ AppUnchanged

\* if not outlook: log, finished_sending.emit(), return
ConnectGiveUp(w) ==
    LET r == workers[w] IN
    /\ r.pc = "afterConnect"
    /\ ~r.outlook
    /\ CanPost(r)
    /\ Set(w, Finish(EmitLog(r, "giveUp"), "connect"))
    /\ mainq' = Post(r, FinishedSignal)
    /\ AppUnchanged

\* GetNamespaceOk without the `if not outlook` test before it
GetNamespaceUnchecked(w) ==
    LET r == workers[w] IN
    /\ r.pc = "afterConnect"
    /\ Set(w, [r EXCEPT !.pc = "folders"])
    /\ UNCHANGED mainq
    /\ AppUnchanged

\* outlook.GetNamespace("MAPI") returns
GetNamespaceOk(w) ==
    LET r == workers[w] IN
    /\ r.pc = "afterConnect"
    /\ r.outlook
    /\ Set(w, [r EXCEPT !.pc = "folders"])
    /\ UNCHANGED mainq
    /\ AppUnchanged

\* outlook.GetNamespace("MAPI") raises: it is outside the inner try, so the
\* outer handler takes it
GetNamespaceRaise(w) ==
    LET r == workers[w] IN
    /\ r.pc = "afterConnect"
    /\ r.outlook
    /\ CanPost(r)
    /\ Set(w, HandleFatal(r))
    /\ mainq' = Post(r, FinishedSignal)
    /\ AppUnchanged

\* both GetDefaultFolder calls return; total, processed_count, failed_emails
ResolveFoldersOk(w) ==
    LET r == workers[w] IN
    /\ r.pc = "folders"
    /\ Set(w, [r EXCEPT !.total = Len(r.df), !.processed_count = 0,
                        !.failed_emails = <<>>, !.pos = 1, !.pc = "fpCheck"])
    /\ UNCHANGED mainq
    /\ AppUnchanged

\* a GetDefaultFolder call raises: log, finished_sending.emit(), return
ResolveFoldersFail(w) ==
    LET r == workers[w] IN
    /\ r.pc = "folders"
    /\ CanPost(r)
    /\ Set(w, Finish(EmitLog(r, "folderErr"), "folders"))
    /\ mainq' = Post(r, FinishedSignal)
    /\ AppUnchanged

\* FirstPassCheck that marks the rows it leaves unsent Failed when it breaks
FirstPassCheckMarkRest(w) ==
    LET r == workers[w]
        marked == [k \in 1..(Len(r.df) - r.pos + 1) |->
                      [index |-> r.df[r.pos + k - 1].label, status |-> "Failed"]]
    IN
    /\ r.pc = "fpCheck"
    /\ Set(w, IF r.pos > Len(r.df) THEN [r EXCEPT !.pc = "retryGate"]
              ELSE IF ~r.running
                   THEN [Note(r, [SawStop(EmitLog(r, "stopped")) EXCEPT
                                    !.stoppedAt = r.pos - 1, !.statusLog = @ \o marked])
                           EXCEPT !.pc = "retryGate"]
                   ELSE [r EXCEPT !.pc = "fpSend"])
    /\ UNCHANGED mainq
    /\ AppUnchanged

\* the head of the first-pass loop: the rows are exhausted, or `if not
\* self.running` logs and breaks, or the row's send begins
FirstPassCheck(w) ==
    LET r == workers[w] IN
    /\ r.pc = "fpCheck"
    /\ Set(w, IF r.pos > Len(r.df) THEN [r EXCEPT !.pc = "retryGate"]
              ELSE IF ~r.running
                   THEN [Note(r, [SawStop(EmitLog(r, "stopped")) EXCEPT
                                    !.stoppedAt = r.pos - 1])
                           EXCEPT !.pc = "retryGate"]
                   ELSE [r EXCEPT !.pc = "fpSend"])
    /\ UNCHANGED mainq
    /\ AppUnchanged

\* FirstPassSend that leaves the loop when a row fails
FirstPassSendAbort(w) ==
    LET r == workers[w] IN
    /\ r.pc = "fpSend"
    /\ CanPost(r)
    /\ \E outcome \in CallOutcomes(r, r.df[r.pos]) :
        LET s == send_single_email(r, 0, r.pos, outcome)
            c == [s EXCEPT !.failed_emails = IF Success(outcome) THEN @ ELSE Append(@, r.pos),
                           !.processed_count = @ + 1,
                           !.pos = @ + 1,
                           !.pc = IF Success(outcome) THEN "fpCheck" ELSE "retryGate"]
        IN  /\ Set(w, EmitProgress(c, PercentTable[c.total][c.processed_count]))
            /\ mainq' = Post(r, StatusSignal(r, r.pos, outcome))
    /\ AppUnchanged

\* FirstPassSend that puts every row on the retry list, sent or not
FirstPassSendRetryAll(w) ==
    LET r == workers[w] IN
    /\ r.pc = "fpSend"
    /\ CanPost(r)
    /\ \E outcome \in CallOutcomes(r, r.df[r.pos]) :
        LET s == send_single_email(r, 0, r.pos, outcome)
            c == [s EXCEPT !.failed_emails = Append(@, r.pos),
                           !.processed_count = @ + 1,
                           !.pos = @ + 1,
                           !.pc = "fpCheck"]
        IN  /\ Set(w, EmitProgress(c, PercentTable[c.total][c.processed_count]))
            /\ mainq' = Post(r, StatusSignal(r, r.pos, outcome))
    /\ AppUnchanged

\* the body of the first-pass loop: send, record a failure, count, progress
FirstPassSend(w) ==
    LET r == workers[w] IN
    /\ r.pc = "fpSend"
    /\ CanPost(r)
    /\ \E outcome \in CallOutcomes(r, r.df[r.pos]) :
        LET s == send_single_email(r, 0, r.pos, outcome)
            c == [s EXCEPT !.failed_emails = IF Success(outcome) THEN @ ELSE Append(@, r.pos),
                           !.processed_count = @ + 1,
                           !.pos = @ + 1,
                           !.pc = "fpCheck"]
        IN  /\ Set(w, EmitProgress(c, PercentTable[c.total][c.processed_count]))
            /\ mainq' = Post(r, StatusSignal(r, r.pos, outcome))
    /\ AppUnchanged

\* RetryGate without the `self.max_retries > 0` test
RetryGateAlways(w) ==
    LET r == workers[w] IN
    /\ r.pc = "retryGate"
    /\ Set(w, IF r.failed_emails # <<>>
              THEN [EmitLog(r, "retrying") EXCEPT !.retry_attempt = 0, !.pc = "rpTop"]
              ELSE [r EXCEPT !.pc = "summary"])
    /\ UNCHANGED mainq
    /\ AppUnchanged

\* if failed_emails and self.max_retries > 0: log "Retrying N failed emails"
RetryGate(w) ==
    LET r == workers[w] IN
    /\ r.pc = "retryGate"
    /\ Set(w, IF r.failed_emails # <<>> /\ r.max_retries > 0
              THEN [EmitLog(r, "retrying") EXCEPT !.retry_attempt = 0, !.pc = "rpTop"]
              ELSE [r EXCEPT !.pc = "summary"])
    /\ UNCHANGED mainq
    /\ AppUnchanged

\* RetryTop over range(max_retries - 1)
RetryTopOneShort(w) ==
    LET r == workers[w] IN
    /\ r.pc = "rpTop"
    /\ Set(w, IF r.retry_attempt + 1 >= r.max_retries THEN [r EXCEPT !.pc = "summary"]
              ELSE IF ~r.running \/ r.failed_emails = <<>>
                   THEN [(IF r.running THEN r ELSE SawStop(r)) EXCEPT !.pc = "summary"]
                   ELSE [EmitLog(r, "retryAttempt") EXCEPT
                           !.still_failed = <<>>, !.rpos = 1, !.pc = "rpCheck"])
    /\ UNCHANGED mainq
    /\ AppUnchanged

\* the head of the retry loop: range(max_retries) is exhausted, or `if not
\* self.running or not failed_emails` breaks, or a pass begins with its log line
RetryTop(w) ==
    LET r == workers[w] IN
    /\ r.pc = "rpTop"
    /\ Set(w, IF r.retry_attempt >= r.max_retries THEN [r EXCEPT !.pc = "summary"]
              ELSE IF ~r.running \/ r.failed_emails = <<>>
                   THEN [(IF r.running THEN r ELSE SawStop(r)) EXCEPT !.pc = "summary"]
                   ELSE [EmitLog(r, "retryAttempt") EXCEPT
                           !.still_failed = <<>>, !.rpos = 1, !.pc = "rpCheck"])
    /\ UNCHANGED mainq
    /\ AppUnchanged

\* RetryCheck without the `if not self.running` test
RetryCheckNoStop(w) ==
    LET r == workers[w] IN
    /\ r.pc = "rpCheck"
    /\ Set(w, IF r.rpos > Len(r.failed_emails) THEN [r EXCEPT !.pc = "rpEnd"]
              ELSE [r EXCEPT !.pc = "rpSend"])
    /\ UNCHANGED mainq
    /\ AppUnchanged

\* the head of the loop over failed_emails: exhausted, or `if not
\* self.running` breaks, or the row's send begins
RetryCheck(w) ==
    LET r == workers[w] IN
    /\ r.pc = "rpCheck"
    /\ Set(w, IF r.rpos > Len(r.failed_emails) THEN [r EXCEPT !.pc = "rpEnd"]
              ELSE IF ~r.running THEN [SawStop(r) EXCEPT !.pc = "rpEnd"]
                   ELSE [r EXCEPT !.pc = "rpSend"])
    /\ UNCHANGED mainq
    /\ AppUnchanged

\* the body of the loop over failed_emails
RetrySend(w) ==
    LET r == workers[w]
        p == r.failed_emails[r.rpos]
    IN
    /\ r.pc = "rpSend"
    /\ CanPost(r)
    /\ \E outcome \in CallOutcomes(r, r.df[p]) :
        LET s == send_single_email(r, r.retry_attempt + 1, p, outcome) IN
        /\ Set(w, [s EXCEPT !.still_failed = IF Success(outcome) THEN @ ELSE Append(@, p),
                            !.rpos = @ + 1,
                            !.pc = "rpCheck"])
        /\ mainq' = Post(r, StatusSignal(r, p, outcome))
    /\ AppUnchanged

\* RetryEnd that hands the next pass the failed rows in reverse order
RetryEndReversed(w) ==
    LET r == workers[w] IN
    /\ r.pc = "rpEnd"
    /\ Set(w, [(IF r.still_failed # <<>> THEN Sleep(r, 2) ELSE r) EXCEPT
                 !.failed_emails = [k \in 1..Len(r.still_failed) |->
                                     r.still_failed[Len(r.still_failed) + 1 - k]],
                 !.retry_attempt = @ + 1,
                 !.pc = "rpTop"])
    /\ UNCHANGED mainq
    /\ AppUnchanged

\* failed_emails = still_failed; if failed_emails: time.sleep(2); next attempt
RetryEnd(w) ==
    LET r == workers[w] IN
    /\ r.pc = "rpEnd"
    /\ Set(w, [(IF r.still_failed # <<>> THEN Sleep(r, 2) ELSE r) EXCEPT
                 !.failed_emails = r.still_failed,
                 !.retry_attempt = @ + 1,
                 !.pc = "rpTop"])
    /\ UNCHANGED mainq
    /\ AppUnchanged

\* if failed_emails: log the summary; finished_sending.emit()
Summary(w) ==
    LET r == workers[w] IN
    /\ r.pc = "summary"
    /\ CanPost(r)
    /\ Set(w, Finish(IF r.failed_emails # <<>>
                     THEN EmitSummary(r, Len(r.failed_emails))
                     ELSE r, "normal"))
    /\ mainq' = Post(r, FinishedSignal)
    /\ AppUnchanged

\* one step of EmailWorker.run
Run(w) ==
    \/ CoInitializeOk(w) \/ CoInitializeRaise(w)
    \/ ConnectOk(w) \/ ConnectFail(w) \/ ConnectGiveUp(w)
    \/ GetNamespaceOk(w) \/ GetNamespaceRaise(w)
    \/ ResolveFoldersOk(w) \/ ResolveFoldersFail(w)
    \/ FirstPassCheck(w) \/ FirstPassSend(w)
    \/ RetryGate(w) \/ RetryTop(w) \/ RetryCheck(w) \/ RetrySend(w) \/ RetryEnd(w)
    \/ Summary(w)

\* EmailWorker.stop, called from another thread while run() executes
Stop(w) ==
    /\ workers[w].pc # "done"
    /\ workers[w].running
    /\ Set(w, [workers[w] EXCEPT !.running = FALSE])
    /\ UNCHANGED mainq
    /\ AppUnchanged

\* --------------------------------------------- an EmailWorker on its own
\* One EmailWorker, constructed on a batch load-time validation can produce
\* and started; its signals are connected to nothing.
Batches(n) == {LoadedBatch(cells) : cells \in Sheets(n)} \ {<<>>}

Init ==
    /\ \E batch \in Batches(MaxRows) : \E retries \in 0..MaxRetriesBound :
        /\ df = batch
        /\ workers = <<NewWorker(batch, retries, FALSE, TRUE)>>
    /\ loaded = TRUE
    /\ worker = 1
    /\ mainq = <<>>
    /\ start_button = FALSE
    /\ stop_button = TRUE
    /\ loads = 1
    /\ call = NoCall

Next == Run(1) \/ Stop(1)

Spec == Init /\ [][Next]_vars

\* the thread is scheduled until run() returns
FairSpec == Spec /\ WF_vars(Run(1))

\* ---- an EmailWorker whose calls are followed to the submission
FollowRows == 2         \* most rows of a batch whose submissions are followed
FollowRetries == 1      \* largest max_retries of such a worker

InitFollow ==
    /\ \E batch \in Batches(FollowRows) : \E retries \in 0..FollowRetries :
        /\ df = batch
        /\ workers = <<[NewWorker(batch, retries, FALSE, TRUE) EXCEPT !.follow = TRUE]>>
    /\ loaded = TRUE
    /\ worker = 1
    /\ mainq = <<>>
    /\ start_button = FALSE
    /\ stop_button = TRUE
    /\ loads = 1
    /\ call = NoCall

SpecFollow == InitFollow /\ [][Next]_vars


\* ------------------------------------------------------------- EmailApp
\* has_data of update_ui_state
has_data(isLoaded, batch) == isLoaded /\ Len(batch) > 0

\* load_excel (button or Ctrl+O): read, validate, Status = "Pending",
\* populate the table, update_ui_state
LoadExcel ==
    /\ loads < MaxLoads
    /\ \E cells \in Sheets(AppMaxRows) :
        /\ df' = LoadedBatch(cells)
        /\ loaded' = TRUE
        /\ start_button' = has_data(TRUE, LoadedBatch(cells))
    /\ stop_button' = FALSE
    /\ loads' = loads + 1
    /\ UNCHANGED <<worker, workers, mainq, call>>

\* start_sending, reached by a click on the enabled start button or by the
\* Ctrl+S action: a new EmailWorker on self.df, its signals connected, started
start_sending(via) ==
    /\ via = "button" => start_button
    /\ loaded
    /\ Len(df) > 0
    /\ Len(workers) < MaxJobs
    /\ \E retries \in 0..AppMaxRetries :
        workers' = Append(workers, NewWorker(df, retries, TRUE, FALSE))
    /\ worker' = Len(workers) + 1
    /\ start_button' = FALSE
    /\ stop_button' = TRUE
    /\ UNCHANGED <<df, loaded, mainq, loads, call>>

StartSending == \E via \in {"button", "shortcut"} : start_sending(via)

\* stop_sending, reached by a click on the enabled stop button or by the
\* Ctrl+Shift+S action: if self.worker: worker.stop(); update_ui_state()
stop_sending(via) ==
    /\ via = "button" => stop_button
    /\ worker # 0
    /\ workers' = [workers EXCEPT ![worker].running = FALSE]
    /\ start_button' = has_data(loaded, df)
    /\ stop_button' = FALSE
    /\ UNCHANGED <<df, loaded, worker, mainq, loads, call>>

StopSending == \E via \in {"button", "shortcut"} : stop_sending(via)

\* update_status(row, status): df.iloc[row, 4] = status when row < len(df)
update_status(batch, row, status) ==
    IF row < Len(batch) THEN [batch EXCEPT ![row + 1].Status = status] ELSE batch

\* the main thread takes the next queued signal: update_status for a status
\* signal, finish_message (update_ui_state) for finished_sending
Deliver ==
    /\ mainq # <<>>
    /\ mainq' = Tail(mainq)
    /\ IF Head(mainq).kind = "status"
       THEN /\ df' = IF loaded THEN update_status(df, Head(mainq).index, Head(mainq).status)
                     ELSE df
            /\ UNCHANGED <<start_button, stop_button>>
       ELSE /\ start_button' = has_data(loaded, df)
            /\ stop_button' = FALSE
            /\ UNCHANGED df
    /\ UNCHANGED <<loaded, worker, workers, loads, call>>

RunAny == \E w \in 1..Len(workers) : Run(w)

\* EmailApp.__init__: no sheet, no worker, both buttons disabled
NoApp ==
    /\ df = <<>>
    /\ loaded = FALSE
    /\ worker = 0
    /\ workers = <<>>
    /\ mainq = <<>>
    /\ start_button = FALSE
    /\ stop_button = FALSE
    /\ loads = 0

InitApp == NoApp /\ call = NoCall

NextApp == LoadExcel \/ StartSending \/ StopSending \/ Deliver \/ RunAny

SpecApp == InitApp /\ [][NextApp]_vars

\* no job is running and no signal of one is still queued
Idle == mainq = <<>> /\ \A w \in 1..Len(workers) : workers[w].pc = "done"

\* the application used as its design asks: a job is started only when the
\* previous one has finished
StartWhenIdle == Idle /\ StartSending

NextSerial == LoadExcel \/ StartWhenIdle \/ StopSending \/ Deliver \/ RunAny

SerialApp == InitApp /\ [][NextSerial]_vars

\* ------------------------------------- one call of _send_single_email
PollLimit == 30         \* range(30)
MaxSentItems == 1       \* largest sent.Items.Count read before the message is sent

\* a cell that is only white space passes load-time validation like an empty one
BlankEmail == <<" ">>
CallEmails == {GoodEmail, EmptyEmail, BlankEmail}

\* index labels run() may hand to the call
CallIndexes == {0, 2}

\* the signals of the call, as they are emitted
StatusEvent(c, status) == [signal |-> "status_updated", index |-> c.index, status |-> status]
LogEvent == [signal |-> "log_updated", index |-> -1, status |-> "none"]

\* The call on a row with the address cell e, before its first statement;
\* events is the list of the signals it has emitted.
\* ops is the set of transport operations (Outlook calls) made so far; nStatus,
\* checks, sleeps1 and confirmed count and record what the call did, raisedAt
\* is the place where a statement raised ("none": nothing raised).
NewCall(e, index) ==
    [fn |-> "_send_single_email", pc |-> "read", Email |-> e, index |-> index, events |-> <<>>,
     email |-> <<>>, bound |-> FALSE, exists |-> "unknown",
     start_sent_count |-> 0, i |-> 0, ops |-> {},
     status |-> "none", nStatus |-> 0, log |-> "none", result |-> "none",
     checks |-> 0, sleeps1 |-> 0, confirmed |-> FALSE, raisedAt |-> "none"]

\* the application plays no part while one call is followed
AppIdle == UNCHANGED <<df, loaded, worker, workers, mainq, start_button, stop_button, loads>>

\* status_updated.emit(index, "Failed"); log_updated.emit(...); return False
Reject(c, kind) ==
    [c EXCEPT !.status = "Failed", !.nStatus = @ + 1, !.log = kind,
              !.events = @ \o <<StatusEvent(c, "Failed"), LogEvent>>,
              !.result = "False", !.pc = "returned"]

\* a statement inside the try raises: control passes to the except clause
Raise(c) == [c EXCEPT !.raisedAt = c.pc, !.pc = "handler"]

\* a transport operation was made and returned: on to the next statement
Step(c, op, to) == [c EXCEPT !.ops = @ \cup {op}, !.pc = to]

\* a transport operation was made and raised
StepRaise(c, op) == Raise([c EXCEPT !.ops = @ \cup {op}])

\* ReadRow where the first read of the row can raise
ReadRowMayRaise ==
    /\ call.pc = "read"
    /\ \/ call' = [call EXCEPT !.email = Strip(call.Email), !.bound = TRUE,
                               !.pc = "checkEmail"]
       \/ call' = Raise(call)
    /\ AppIdle

\* email, cc_value, attachment = str(row[...]).strip(): the row of a loaded
\* batch has all three columns and str() is total, so the reads return
ReadRow ==
    /\ call.pc = "read"
    /\ call' = [call EXCEPT !.email = Strip(call.Email), !.bound = TRUE,
                            !.pc = "checkEmail"]
    /\ AppIdle

\* CheckEmail that tests the cell as read, not the trimmed address
CheckEmailUntrimmed ==
    /\ call.pc = "checkEmail"
    /\ call' = IF call.Email = <<>> THEN Reject(call, "noEmail")
               ELSE [call EXCEPT !.pc = "checkAttachment"]
    /\ AppIdle

\* if not email: status Failed, log, return False
CheckEmail ==
    /\ call.pc = "checkEmail"
    /\ call' = IF call.email = <<>> THEN Reject(call, "noEmail")
               ELSE [call EXCEPT !.pc = "checkAttachment"]
    /\ AppIdle

\* if not os.path.exists(attachment): status Failed, log, return False
CheckAttachment ==
    /\ call.pc = "checkAttachment"
    /\ \E found \in BOOLEAN :
        call' = IF found THEN [call EXCEPT !.exists = "yes", !.pc = "count"]
                ELSE Reject([call EXCEPT !.exists = "no"], "noAttachment")
    /\ AppIdle

\* start_sent_count = sent.Items.Count
ReadSentCountOk ==
    /\ call.pc = "count"
    /\ \E n \in 0..MaxSentItems :
        call' = [call EXCEPT !.start_sent_count = n, !.ops = @ \cup {"count"},
                             !.pc = "create"]
    /\ AppIdle

ReadSentCountRaise ==
    /\ call.pc = "count"
    /\ call' = StepRaise(call, "count")
    /\ AppIdle

\* the texts are built, outlook.CreateItem(0) and the mail's fields are set
CreateItemOk ==
    /\ call.pc = "create"
    /\ call' = Step(call, "create", "attach")
    /\ AppIdle

CreateItemRaise ==
    /\ call.pc = "create"
    /\ call' = StepRaise(call, "create")
    /\ AppIdle

\* mail.Attachments.Add(attachment)
AttachOk ==
    /\ call.pc = "attach"
    /\ call' = Step(call, "attach", "send")
    /\ AppIdle

AttachRaise ==
    /\ call.pc = "attach"
    /\ call' = StepRaise(call, "attach")
    /\ AppIdle

\* mail.Send()
SendOk ==
    /\ call.pc = "send"
    /\ call' = Step(call, "send", "poll")
    /\ AppIdle

SendRaise ==
    /\ call.pc = "send"
    /\ call' = StepRaise(call, "send")
    /\ AppIdle

\* for _ in range(30): if outbox.Items.Count == 0 or sent.Items.Count >
\* start_sent_count: break; time.sleep(1)
PollCheck ==
    /\ call.pc = "poll"
    /\ IF call.i = PollLimit
       THEN call' = [call EXCEPT !.pc = "report"]
       ELSE \E outboxCount \in 0..1 : \E sentCount \in 0..(MaxSentItems + 1) :
               call' = IF outboxCount = 0 \/ sentCount > call.start_sent_count
                       THEN [call EXCEPT !.checks = @ + 1, !.confirmed = TRUE,
                                         !.pc = "report"]
                       ELSE [call EXCEPT !.checks = @ + 1, !.sleeps1 = @ + 1,
                                         !.i = @ + 1]
    /\ AppIdle

\* one of the two Count reads of a check raises
PollRaise ==
    /\ call.pc = "poll"
    /\ call.i < PollLimit
    /\ call' = Raise([call EXCEPT !.checks = @ + 1])
    /\ AppIdle

\* ReportSent that reports Failed when the poll ran out unconfirmed
ReportSentIfConfirmed ==
    /\ call.pc = "report"
    /\ call' = IF call.confirmed
               THEN [call EXCEPT !.status = "Sent", !.nStatus = @ + 1, !.log = "sent",
                                 !.result = "True", !.pc = "returned"]
               ELSE Reject(call, "error")
    /\ AppIdle

\* status_updated.emit(index, "Sent"); log_updated.emit(...); return True
ReportSent ==
    /\ call.pc = "report"
    /\ call' = [call EXCEPT !.status = "Sent", !.nStatus = @ + 1, !.log = "sent",
                            !.events = @ \o <<StatusEvent(call, "Sent"), LogEvent>>,
                            !.result = "True", !.pc = "returned"]
    /\ AppIdle

\* Handler that writes the log line and emits no status
HandlerLogOnly ==
    /\ call.pc = "handler"
    /\ call' = [call EXCEPT !.log = "error", !.events = @ \o <<LogEvent>>,
                            !.result = "False", !.pc = "returned"]
    /\ AppIdle

\* except Exception as e: status Failed, then the log line, whose text reads
\* `email` (a NameError leaves the function if email was never bound), return False
Handler ==
    /\ call.pc = "handler"
    /\ call' = IF call.bound THEN Reject(call, "error")
               ELSE [call EXCEPT !.status = "Failed", !.nStatus = @ + 1,
                                 !.events = @ \o <<StatusEvent(call, "Failed")>>,
                                 !.pc = "escaped"]
    /\ AppIdle

\* one call on a row of a loaded batch, followed statement by statement
InitSendOne == NoApp /\ \E e \in CallEmails : \E index \in CallIndexes : call = NewCall(e, index)

NextSendOne ==
    \/ ReadRow \/ CheckEmail \/ CheckAttachment
    \/ ReadSentCountOk \/ ReadSentCountRaise
    \/ CreateItemOk \/ CreateItemRaise
    \/ AttachOk \/ AttachRaise
    \/ SendOk \/ SendRaise
    \/ PollCheck \/ PollRaise
    \/ ReportSent \/ Handler

SpecSendOne == InitSendOne /\ [][NextSendOne]_vars

\* ------------------------------------ the progress count of the first pass
\* total = len(self.df); processed_count = 0: nothing emitted yet
NewCount(n) == [fn |-> "progress", total |-> n, processed_count |-> 0, percent |-> -1]

\* a row was processed: processed_count += 1; percent = int((processed_count
\* / total) * 100); progress_updated.emit(percent)
CountRow ==
    /\ call.processed_count < call.total
    /\ call' = [call EXCEPT !.processed_count = @ + 1,
                            !.percent = PercentTable[call.total][call.processed_count + 1]]
    /\ AppIdle

InitPercent == NoApp /\ \E n \in 1..MaxTotal : call = NewCount(n)

NextPercent == CountRow

SpecPercent == InitPercent /\ [][NextPercent]_vars

\* ------------------------------------------------ validate_email on its own
MaxLen == 6             \* longest address text handed to validate_email
AddressChars == {"a", "1", "@", ".", " "}

Addresses(n) == UNION {[1..m -> AddressChars] : m \in 0..n}

\* validate_email(email) is about to be called
NewValidation(text) == [fn |-> "validate_email", email |-> text, result |-> <<>>]

\* the call returns (is_valid, error_message)
Validate ==
    /\ call.result = <<>>
    /\ call' = [call EXCEPT !.result = validate_email(call.email)]
    /\ AppIdle

InitValidate == NoApp /\ \E text \in Addresses(MaxLen) : call = NewValidation(text)

NextValidate == Validate

SpecValidate == InitValidate /\ [][NextValidate]_vars

\* -------------------------------- validate_emails_in_dataframe on its own
MaxSheet == 3           \* most rows of the sheet handed to the validator

\* cells of the Email column: empty, white space only, good, bad, good with
\* white space around it, no dot in the domain
SheetCells == {EmptyEmail, BlankEmail, GoodEmail, BadEmail,
               <<" ">> \o GoodEmail \o <<" ">>, <<"a", "@", "b">>}

\* load_excel is about to call validate_emails_in_dataframe(df, "Email") on
\* the sheet it has just read
NewBatchValidation(cells) ==
    [fn |-> "validate_emails_in_dataframe", df |-> ReadSheet(cells),
     returned |-> FALSE, valid_df |-> <<>>, invalid_emails |-> {}]

\* the call returns (valid_df, invalid_emails)
ValidateBatch ==
    /\ call.returned = FALSE
    /\ call' = [call EXCEPT !.returned = TRUE,
                            !.valid_df = validate_emails_in_dataframe(call.df),
                            !.invalid_emails = invalid_emails(call.df)]
    /\ AppIdle

InitBatch ==
    /\ NoApp
    /\ \E n \in 0..MaxSheet : \E cells \in [1..n -> SheetCells] :
        call = NewBatchValidation(cells)

NextBatch == ValidateBatch

SpecBatch == InitBatch /\ [][NextBatch]_vars

\* ------------------------------------- the texts of one message (376-381)
\* the placeholder, "{{fullname}}"
Token == <<"{", "{", "f", "u", "l", "l", "n", "a", "m", "e", "}", "}">>

\* str.replace(old, new): every occurrence of old, found left to right and
\* not overlapping an earlier one, becomes new; the inserted text is not
\* searched again
RECURSIVE Replace(_, _, _)
Replace(s, old, new) ==
    IF Len(s) < Len(old) THEN s
    ELSE IF SubSeq(s, 1, Len(old)) = old
         THEN new \o Replace(SubSeq(s, Len(old) + 1, Len(s)), old, new)
         ELSE <<Head(s)>> \o Replace(Tail(s), old, new)

\* fullname.split(",")[0]: the text before the first comma
BeforeComma(s) ==
    LET comma == CHOOSE i \in 1..Len(s) : s[i] = "," /\ \A j \in 1..(i - 1) : s[j] # ","
    IN  SubSeq(s, 1, comma - 1)

\* get_surname that does not trim the part before the comma
get_surname_untrimmed(fullname) ==
    LET name == Strip(fullname) IN
    IF Count(name, ",") > 0 THEN BeforeComma(name) ELSE name

\* get_surname(fullname)
get_surname(fullname) ==
    LET name == Strip(fullname) IN
    IF Count(name, ",") > 0 THEN Strip(BeforeComma(name)) ELSE name

\* "Full Name" cells, subject templates and body templates:
\* "Dela Cruz, Juan", "Juan Dela Cruz", " Ann ", "A , B,C", ",x", "",
\* "{{fullname}}"
FullNames ==
    {<<"D", "e", "l", "a", " ", "C", "r", "u", "z", ",", " ", "J", "u", "a", "n">>,
     <<"J", "u", "a", "n", " ", "D", "e", "l", "a", " ", "C", "r", "u", "z">>,
     <<" ", "A", "n", "n", " ">>,
     <<"A", " ", ",", " ", "B", ",", "C">>,
     <<",", "x">>,
     <<>>,
     <<"{", "{", "f", "u", "l", "l", "n", "a", "m", "e", "}", "}">>}

\* "", "Hi {{fullname}}", "{{fullname}}{{fullname}}", "{{{fullname}}}",
\* "{{fullname}"
SubjectTemplates ==
    {<<>>,
     <<"H", "i", " ", "{", "{", "f", "u", "l", "l", "n", "a", "m", "e", "}", "}">>,
     <<"{", "{", "f", "u", "l", "l", "n", "a", "m", "e", "}", "}", "{", "{", "f", "u", "l", "l", "n", "a", "m", "e", "}", "}">>,
     <<"{", "{", "{", "f", "u", "l", "l", "n", "a", "m", "e", "}", "}", "}">>,
     <<"{", "{", "f", "u", "l", "l", "n", "a", "m", "e", "}">>}

\* "<p>{{fullname}}</p>", "{{fullname}}, {{fullname}}", "x", "{{Fullname}}"
BodyTemplates ==
    {<<"<", "p", ">", "{", "{", "f", "u", "l", "l", "n", "a", "m", "e", "}", "}", "<", "/", "p", ">">>,
     <<"{", "{", "f", "u", "l", "l", "n", "a", "m", "e", "}", "}", ",", " ", "{", "{", "f", "u", "l", "l", "n", "a", "m", "e", "}", "}">>,
     <<"x">>,
     <<"{", "{", "F", "u", "l", "l", "n", "a", "m", "e", "}", "}">>}

\* _send_single_email has passed its checks on a row with this "Full Name"
\* cell; self.subject and self.body_template are the worker's templates
NewTexts(cell, subjectTemplate, bodyTemplate) ==
    [fn |-> "texts", pc |-> "full_name", FullName |-> cell,
     self_subject |-> subjectTemplate, self_body_template |-> bodyTemplate,
     full_name |-> <<>>, surname |-> <<>>, subject |-> <<>>, body_raw |-> <<>>]

\* full_name = str(row["Full Name"]).strip()
ReadFullName ==
    /\ call.pc = "full_name"
    /\ call' = [call EXCEPT !.full_name = Strip(call.FullName), !.pc = "surname"]
    /\ AppIdle

\* surname = get_surname(full_name)
DeriveSurname ==
    /\ call.pc = "surname"
    /\ call' = [call EXCEPT !.surname = get_surname(call.full_name), !.pc = "subject"]
    /\ AppIdle

\* subject = self.subject.replace("{{fullname}}", full_name)
ExpandSubject ==
    /\ call.pc = "subject"
    /\ call' = [call EXCEPT !.subject = Replace(call.self_subject, Token, call.full_name),
                            !.pc = "body_raw"]
    /\ AppIdle

\* body_raw = self.body_template.replace("{{fullname}}", surname)
ExpandBody ==
    /\ call.pc = "body_raw"
    /\ call' = [call EXCEPT !.body_raw = Replace(call.self_body_template, Token, call.surname),
                            !.pc = "body"]
    /\ AppIdle

InitTexts ==
    /\ NoApp
    /\ \E cell \in FullNames : \E st \in SubjectTemplates : \E bt \in BodyTemplates :
        call = NewTexts(cell, st, bt)

NextTexts == ReadFullName \/ DeriveSurname \/ ExpandSubject \/ ExpandBody

SpecTexts == InitTexts /\ [][NextTexts]_vars

\* ----------------------------------------------- build_outlook_safe_html
\* Text is a sequence of one-character strings; Chars spells a literal out.
Chars(str) == [i \in 1..Len(str) |-> SubSeq(str, i, i)]

\* \s and the word characters of \b
SpaceChars == {" ", "\t", "\n", "\r"}
LowerCase == {Chars("abcdefghijklmnopqrstuvwxyz")[i] : i \in 1..26}
UpperCase == {Chars("ABCDEFGHIJKLMNOPQRSTUVWXYZ")[i] : i \in 1..26}
WordChars ==
    LowerCase \cup UpperCase \cup {Chars("0123456789_")[i] : i \in 1..11}

\* re.IGNORECASE: the lower-case form of a character
Lower(ch) ==
    IF ch \in UpperCase
    THEN Chars("abcdefghijklmnopqrstuvwxyz")[
            CHOOSE i \in 1..26 : Chars("ABCDEFGHIJKLMNOPQRSTUVWXYZ")[i] = ch]
    ELSE ch

Least(S) == CHOOSE x \in S : \A y \in S : x <= y

\* the lower-case literal lit stands at place i of s, in any case
LitAt(s, i, lit) ==
    /\ i >= 1
    /\ i + Len(lit) - 1 <= Len(s)
    /\ \A k \in 1..Len(lit) : Lower(s[i + k - 1]) = lit[k]

\* the first place of `lit` at or after `from` (0: none)
FindLit(s, from, lit) ==
    LET at == {i \in from..Len(s) : LitAt(s, i, lit)} IN
    IF at = {} THEN 0 ELSE Least(at)

\* \s*: the first place at or after `from` that holds no white space
SkipSpace(s, from) ==
    Least({j \in from..(Len(s) + 1) : j = Len(s) + 1 \/ s[j] \notin SpaceChars})

\* <name[^>]*> or <name\b[^>]*> at place i: the place of its '>' (0: no match)
OpenTagEnd(s, i, name, boundary) ==
    LET next == i + Len(name) + 1
        close == {j \in next..Len(s) : s[j] = ">"}
    IN  IF ~LitAt(s, i, <<"<">> \o name) THEN 0
        ELSE IF boundary /\ next <= Len(s) /\ s[next] \in WordChars THEN 0
        ELSE IF close = {} THEN 0
        ELSE Least(close)

\* <br\s*/?> at place i: the place of its '>' (0: no match)
BreakEnd(s, i) ==
    IF ~LitAt(s, i, Chars("<br")) THEN 0
    ELSE LET j == SkipSpace(s, i + 3)
             k == IF j <= Len(s) /\ s[j] = "/" THEN j + 1 ELSE j
         IN  IF k <= Len(s) /\ s[k] = ">" THEN k ELSE 0

\* (?:<br\s*/?>\s*)* from place i on: <<how many breaks, last place matched>>
RECURSIVE BreakRun(_, _)
BreakRun(s, i) ==
    IF BreakEnd(s, i) = 0 THEN <<0, i - 1>>
    ELSE LET next == SkipSpace(s, BreakEnd(s, i) + 1)
             rest == BreakRun(s, next)
         IN  <<rest[1] + 1, IF rest[1] = 0 THEN next - 1 ELSE rest[2]>>

\* <p\b[^>]*></p> at place i, no white space allowed in between
BlankParagraphEndNoSpace(s, i) ==
    LET open == OpenTagEnd(s, i, <<"p">>, TRUE) IN
    IF open = 0 THEN 0
    ELSE IF LitAt(s, open + 1, Chars("</p>")) THEN open + 4
    ELSE 0

\* <p\b[^>]*>\s*</p> at place i: the last place of the match (0: no match)
BlankParagraphEnd(s, i) ==
    LET open == OpenTagEnd(s, i, <<"p">>, TRUE) IN
    IF open = 0 THEN 0
    ELSE IF LitAt(s, SkipSpace(s, open + 1), Chars("</p>"))
         THEN SkipSpace(s, open + 1) + 3
    ELSE 0

\* <p\b[^>]*>([\s\S]*?)</p> at place i: the last place of the match
ParagraphEnd(s, i) ==
    LET open == OpenTagEnd(s, i, <<"p">>, TRUE) IN
    IF open = 0 THEN 0
    ELSE IF FindLit(s, open + 1, Chars("</p>")) = 0 THEN 0
    ELSE FindLit(s, open + 1, Chars("</p>")) + 3

\* the last place of the match of a pattern at place i (0: no match there)
MatchEnd(kind, s, i) ==
    CASE kind = "divOpen" -> OpenTagEnd(s, i, Chars("div"), TRUE)
      [] kind = "divClose" -> IF LitAt(s, i, Chars("</div>")) THEN i + 5 ELSE 0
      [] kind = "breaks" -> IF BreakRun(s, i)[1] >= 2 THEN BreakRun(s, i)[2] ELSE 0
      [] kind = "blank" -> BlankParagraphEnd(s, i)
      [] kind = "paragraph" -> ParagraphEnd(s, i)
      [] kind = "break" -> BreakEnd(s, i)

\* decimal digits of a natural number, as an f-string writes it
RECURSIVE Decimal(_)
Decimal(n) ==
    IF n < 10 THEN <<Chars("0123456789")[n + 1]>>
    ELSE Decimal(n \div 10) \o <<Chars("0123456789")[(n % 10) + 1]>>

TableOpen ==
    Chars("<table role=\"presentation\" border=\"0\" cellspacing=\"0\" cellpadding=\"0\" width=\"100%\">")
TableClose == Chars("</table>")

\* what a run of line breaks becomes
BreakSpacer(px) ==
    TableOpen \o Chars("<tr><td style=\"padding:0 0 ") \o Decimal(px)
    \o Chars("px 0;\"><span style=\"font-size:1px; line-height:1px;\">&nbsp;</span></td></tr>")
    \o TableClose

\* the spacer row, and the spacer table of one such row
SpacerRow(px) ==
    Chars("<tr><td height=\"") \o Decimal(px)
    \o Chars("\" style=\"font-size:0; line-height:0;\">&nbsp;</td></tr>")
SpacerTable(px) == TableOpen \o SpacerRow(px) \o TableClose

ContentRowOpen ==
    Chars("<tr><td style=\"line-height:1.35; mso-line-height-rule:exactly; font-family: Segoe UI, Arial, sans-serif;\">")
ContentRowClose == Chars("</td></tr>")

\* _wrap_para(m): content row and spacer row
wrap_para(content, px) ==
    TableOpen \o ContentRowOpen \o content \o ContentRowClose \o SpacerRow(px) \o TableClose

\* what the match of a pattern at places i..e of s is replaced by
Replacement(kind, s, i, e, px) ==
    CASE kind = "divOpen" -> Chars("<p") \o SubSeq(s, i + 4, e - 1) \o Chars(">")
      [] kind = "divClose" -> Chars("</p>")
      [] kind = "breaks" -> BreakSpacer(px)
      [] kind = "blank" -> SpacerTable(px)
      [] kind = "paragraph" ->
            wrap_para(SubSeq(s, OpenTagEnd(s, i, <<"p">>, TRUE) + 1, e - 4), px)
      [] kind = "break" -> Chars("<br/>") \o SpacerTable(px)

\* the places where a pattern matches
Matches(kind, s) == {i \in 1..Len(s) : MatchEnd(kind, s, i) > 0}

\* re.sub(pattern, repl, s): the matches are taken left to right, each search
\* starting after the previous match
RECURSIVE Sub(_, _, _)
Sub(kind, s, px) ==
    IF Matches(kind, s) = {} THEN s
    ELSE LET i == Least(Matches(kind, s))
             e == MatchEnd(kind, s, i)
         IN  SubSeq(s, 1, i - 1) \o Replacement(kind, s, i, e, px)
             \o Sub(kind, SubSeq(s, e + 1, Len(s)), px)

\* the number of matches re.sub replaces
RECURSIVE Taken(_, _)
Taken(kind, s) ==
    IF Matches(kind, s) = {} THEN 0
    ELSE 1 + Taken(kind, SubSeq(s, MatchEnd(kind, s, Least(Matches(kind, s))) + 1, Len(s)))

\* re.search(r"<body[^>]*>([\s\S]*?)</body>", html): the places where a body
\* element can start
BodyStarts(html) ==
    {i \in 1..Len(html) :
        /\ OpenTagEnd(html, i, Chars("body"), FALSE) > 0
        /\ FindLit(html, OpenTagEnd(html, i, Chars("body"), FALSE) + 1, Chars("</body>")) > 0}

\* body_match.group(1) if body_match else html
BodyInner(html) ==
    IF BodyStarts(html) = {} THEN html
    ELSE LET open == OpenTagEnd(html, Least(BodyStarts(html)), Chars("body"), FALSE)
         IN  SubSeq(html, open + 1, FindLit(html, open + 1, Chars("</body>")) - 1)

\* re.search(r"<p\b", inner)
HasParagraph(inner) ==
    \E i \in 1..Len(inner) :
        /\ LitAt(inner, i, Chars("<p"))
        /\ (i + 2 <= Len(inner) => inner[i + 2] \notin WordChars)

\* 'role="presentation"' in inner
HasPresentation(inner) ==
    \E i \in 1..(Len(inner) - 18) :
        SubSeq(inner, i, i + 18) = Chars("role=\"presentation\"")

\* the text of `wrapped` before {inner}
ShellHead ==
    Chars("<!DOCTYPE html>\n")
    \o Chars("<html xmlns:v=\"urn:schemas-microsoft-com:vml\" xmlns:o=\"urn:schemas-microsoft-com:office:office\" xmlns=\"http://www.w3.org/1999/xhtml\">\n")
    \o Chars("<head>\n")
    \o Chars("  <meta http-equiv=\"x-ua-compatible\" content=\"IE=edge\">\n")
    \o Chars("  <meta name=\"format-detection\" content=\"telephone=no, date=no, address=no, email=no\">\n")
    \o Chars("  <meta name=\"x-apple-disable-message-reformatting\">\n")
    \o Chars("  <!--[if mso]>\n")
    \o Chars("  <xml>\n")
    \o Chars("   <o:OfficeDocumentSettings>\n")
    \o Chars("    <o:AllowPNG/>\n")
    \o Chars("    <o:PixelsPerInch>96</o:PixelsPerInch>\n")
    \o Chars("   </o:OfficeDocumentSettings>\n")
    \o Chars("  </xml>\n")
    \o Chars("  <style type=\"text/css\">\n")
    \o Chars("    body, table, td, div, p, a { font-family: Segoe UI, Arial, sans-serif !important; }\n")
    \o Chars("    p { margin:0 !important; }\n")
    \o Chars("  </style>\n")
    \o Chars("  <![endif]-->\n")
    \o Chars("  <style>\n")
    \o Chars("    body, table, td, div, p, a { font-family: Segoe UI, Arial, sans-serif; -webkit-text-size-adjust: 100%; -ms-text-size-adjust: 100%; }\n")
    \o Chars("    p { margin:0 !important; } /* kept for safety but spacing handled by tables */\n")
    \o Chars("    .content { font-size: 11pt; line-height: 1.35; color:#2b2b2b; }\n")
    \o Chars("    img { border:0; outline:0; text-decoration:none; -ms-interpolation-mode:bicubic; }\n")
    \o Chars("  </style>\n")
    \o Chars("</head>\n")
    \o Chars("<body style=\"Margin:0; padding:0; background:#ffffff;\">\n")
    \o Chars("  <table role=\"presentation\" cellpadding=\"0\" cellspacing=\"0\" border=\"0\" width=\"100%\">\n")
    \o Chars("    <tr>\n")
    \o Chars("      <td align=\"left\" style=\"padding:0;\">\n")
    \o Chars("        <div class=\"content\" style=\"font-family: Segoe UI, Arial, sans-serif; font-size:11pt; line-height:1.35; mso-line-height-rule:exactly;\">\n")
    \o Chars("          ")

\* the text of `wrapped` after {inner}
ShellTail ==
    Chars("\n")
    \o Chars("        </div>\n")
    \o Chars("      </td>\n")
    \o Chars("    </tr>\n")
    \o Chars("  </table>\n")
    \o Chars("</body>\n")
    \o Chars("</html>")

\* ---- one call of build_outlook_safe_html, statement by statement
MaxPieces == 2          \* most pieces a fragment is put together from

\* blocks that hold something, and blocks that are empty or white space
ContentBlocks == {Chars("<p>b</p>"), Chars("<DIV class=x>c d</DIV>")}
BlankBlocks == {Chars("<p> \n</p>"), Chars("<div></div>")}

\* what a fragment is put together from: text, blocks, nested blocks, line
\* breaks, shell markers, and a layout table of the author's own
Pieces ==
    ContentBlocks \cup BlankBlocks \cup
    {Chars("a"), Chars("<div><p>e</p></div>"), Chars("<br>"), Chars("<BR />\n"),
     Chars("</body>"), Chars("<html>"), Chars("<table role=\"presentation\">")}

RECURSIVE Join(_)
Join(parts) == IF parts = <<>> THEN <<>> ELSE Head(parts) \o Join(Tail(parts))

\* the editor's markup: the pieces as they are, or inside a whole document
Fragment(parts, whole) ==
    IF whole
    THEN Chars("<!DOCTYPE HTML><html><head><style>p { }</style></head><body style=\"x\">\n")
         \o Join(parts) \o Chars("</body></html>")
    ELSE Join(parts)

Spacings == {-4, 12}

\* build_outlook_safe_html(editor_html, para_spacing_px) is called; parts and
\* whole tell how editor_html was put together, before7 and made record the
\* text before the fallback and the constructs the three rewrites made
NewRender(parts, whole, px) ==
    [fn |-> "build_outlook_safe_html", pc |-> "html", parts |-> parts, whole |-> whole,
     editor_html |-> Fragment(parts, whole), para_spacing_px |-> px,
     html |-> <<>>, PARA_SPACE_PX |-> 0, inner |-> <<>>, had_paragraphs |-> FALSE,
     before7 |-> <<>>, made |-> 0, wrapped |-> <<>>]

\* html = editor_html or ""; PARA_SPACE_PX = max(0, int(para_spacing_px))
ReadArguments ==
    /\ call.pc = "html"
    /\ call' = [call EXCEPT !.html = call.editor_html,
                            !.PARA_SPACE_PX = IF call.para_spacing_px > 0
                                              THEN call.para_spacing_px ELSE 0,
                            !.pc = "body"]
    /\ AppIdle

\* inner = body_match.group(1) if body_match else html
ExtractBody ==
    /\ call.pc = "body"
    /\ call' = [call EXCEPT !.inner = BodyInner(call.html), !.pc = "divOpen"]
    /\ AppIdle

\* inner = re.sub(r"<div\b([^>]*)>", r"<p\1>", inner)
NormalizeDivOpen ==
    /\ call.pc = "divOpen"
    /\ call' = [call EXCEPT !.inner = Sub("divOpen", call.inner, call.PARA_SPACE_PX),
                            !.pc = "divClose"]
    /\ AppIdle

\* inner = re.sub(r"</div>", r"</p>", inner)
NormalizeDivClose ==
    /\ call.pc = "divClose"
    /\ call' = [call EXCEPT !.inner = Sub("divClose", call.inner, call.PARA_SPACE_PX),
                            !.pc = "had_paragraphs"]
    /\ AppIdle

\* had_paragraphs = bool(re.search(r"<p\b", inner))
DetectParagraphs ==
    /\ call.pc = "had_paragraphs"
    /\ call' = [call EXCEPT !.had_paragraphs = HasParagraph(call.inner), !.pc = "breaks"]
    /\ AppIdle

\* one of the three rewrites: the text after it, and the constructs it made
Rewrite(c, kind, to) ==
    [c EXCEPT !.inner = Sub(kind, c.inner, c.PARA_SPACE_PX),
              !.made = @ + Taken(kind, c.inner),
              !.pc = to]

\* runs of two or more line breaks become one spacer
CollapseBreaks ==
    /\ call.pc = "breaks"
    /\ call' = Rewrite(call, "breaks", "blank")
    /\ AppIdle

\* blank paragraphs become a spacer table
BlankParagraphs ==
    /\ call.pc = "blank"
    /\ call' = Rewrite(call, "blank", "paragraph")
    /\ AppIdle

\* the other paragraphs become a content row and a spacer row
WrapParagraphs ==
    /\ call.pc = "paragraph"
    /\ call' = [Rewrite(call, "paragraph", "fallback") EXCEPT
                    !.before7 = Sub("paragraph", call.inner, call.PARA_SPACE_PX)]
    /\ AppIdle

\* if ('role="presentation"' not in inner) and (not had_paragraphs): a spacer
\* table after every single line break
Fallback ==
    /\ call.pc = "fallback"
    /\ call' = [call EXCEPT
                    !.inner = IF ~HasPresentation(call.inner) /\ ~call.had_paragraphs
                              THEN Sub("break", call.inner, call.PARA_SPACE_PX)
                              ELSE call.inner,
                    !.pc = "wrapped"]
    /\ AppIdle

\* wrapped = f"""...{inner}..."""; return wrapped
WrapShell ==
    /\ call.pc = "wrapped"
    /\ call' = [call EXCEPT !.wrapped = ShellHead \o call.inner \o ShellTail,
                            !.pc = "returned"]
    /\ AppIdle

InitRender ==
    /\ NoApp
    /\ \E n \in 0..MaxPieces : \E parts \in [1..n -> Pieces] :
       \E whole \in BOOLEAN : \E px \in Spacings :
        call = NewRender(parts, whole, px)

NextRender ==
    \/ ReadArguments \/ ExtractBody \/ NormalizeDivOpen \/ NormalizeDivClose
    \/ DetectParagraphs \/ CollapseBreaks \/ BlankParagraphs \/ WrapParagraphs
    \/ Fallback \/ WrapShell

SpecRender == InitRender /\ [][NextRender]_vars

\* ------------------------------------------------- what a worker has done
W1 == workers[1]

\* the places of run() after the first-pass loop
AfterFirstPass == {"retryGate", "rpTop", "rpCheck", "rpSend", "rpEnd", "summary"}

PastFirstPass(r) == r.pc \in AfterFirstPass \/ (r.pc = "done" /\ r.exit = "normal")

\* the positions sendOne was called on in the first pass, in call order
FirstPassCalls(r) ==
    LET fp == SelectSeq(r.callLog, LAMBDA c : c.pass = 0) IN
    [k \in 1..Len(fp) |-> fp[k].pos]

\* the calls of sendOne on the row at position p (places in callLog)
CallsOf(r, p) == {k \in 1..Len(r.callLog) : r.callLog[k].pos = p}

\* every call has emitted its status event: statusLog[k] belongs to callLog[k]
Aligned(r) == Len(r.statusLog) = Len(r.callLog)

\* the status emitted by the call at place k of callLog
StatusOfCall(r, k) == r.statusLog[k].status

FailuresOf(r, p) == Cardinality({k \in CallsOf(r, p) : StatusOfCall(r, k) = "Failed"})

\* the status of the last call on the row at position p ("Pending": no call)
FinalStatus(r, p) ==
    IF CallsOf(r, p) = {} THEN "Pending"
    ELSE StatusOfCall(r, CHOOSE k \in CallsOf(r, p) : \A m \in CallsOf(r, p) : m <= k)

\* ------------------------------------------------------------------ C1
\* C1: every started dispatch job eventually emits finished(), on every
\* path (connection exhausted, folder failure, normal end, cancellation in
\* the first pass or a retry pass, unexpected exception), given that the
\* worker thread keeps being scheduled and every transport call returns.
C1_EventuallyFinished == <>(W1.nFinished >= 1)

\* a job cancelled in the middle of a retry pass has emitted finished()
C1_Witness ==
    /\ W1.nFinished = 1
    /\ W1.sawStop
    /\ W1.nRetryAttempt >= 1
    /\ W1.stoppedAt = -1
    /\ W1.exit = "normal"

\* ------------------------------------------------------------------ C2
\* C2: finished() is emitted exactly once per job: never twice, once when
\* run() has returned, and no status, progress or log event follows it.
C2_FinishedOnceAndLast ==
    /\ W1.nFinished <= 1
    /\ (W1.pc = "done") <=> (W1.nFinished = 1)
    /\ ~W1.late

\* a job that sent rows and retried has ended with its one finished()
C2_Witness ==
    /\ W1.pc = "done"
    /\ W1.nFinished = 1
    /\ W1.exit = "normal"
    /\ W1.nRetryAttempt >= 1
    /\ W1.summary >= 1

\* ------------------------------------------------------------------ C3
\* C3: when all 5 connection attempts failed, or the folders could not be
\* resolved, the job is terminal: no sendOne call, no status event, no
\* progress event; its log line is emitted and finished() fires.
C3_SetupFailureIsTerminal ==
    /\ (W1.sleeps3 = ConnectAttempts) =>
          /\ W1.pc \in {"afterConnect", "done"}
          /\ ~W1.outlook
          /\ (W1.pc = "done" => W1.exit = "connect")
    /\ (W1.exit \in {"connect", "folders"}) =>
          /\ W1.pc = "done"
          /\ W1.callLog = <<>>
          /\ W1.statusLog = <<>>
          /\ W1.progressLog = <<>>
          /\ W1.lastLog = (IF W1.exit = "connect" THEN "giveUp" ELSE "folderErr")
          /\ W1.nFinished = 1
    /\ (W1.exit = "connect") => (W1.sleeps3 = ConnectAttempts)

\* all five attempts failed and the job has ended
C3_Witness ==
    /\ W1.sleeps3 = ConnectAttempts
    /\ W1.pc = "done"
    /\ W1.nFinished = 1
    /\ Len(W1.df) = MaxRows

\* ------------------------------------------------------------------ C4
\* C4: in the first pass sendOne is called on the rows in batch order, each
\* once, and absent cancellation on every row, whatever earlier rows did.
C4_FirstPassEveryRowInOrder ==
    /\ FirstPassCalls(W1) = [k \in 1..Len(FirstPassCalls(W1)) |-> k]
    /\ (PastFirstPass(W1) /\ W1.stoppedAt = -1) =>
          FirstPassCalls(W1) = [k \in 1..Len(W1.df) |-> k]

\* the first row of a three-row batch failed and the pass went on to the end
C4_Witness ==
    /\ PastFirstPass(W1)
    /\ W1.stoppedAt = -1
    /\ Len(W1.df) = 3
    /\ Len(W1.statusLog) >= 3
    /\ W1.statusLog[1].status = "Failed"
    /\ W1.statusLog[3].status = "Sent"

\* ------------------------------------------------------------------ C5
\* C5: when the first pass is cancelled after k+1 of n rows were processed,
\* those rows each have their one status event (Sent or Failed), no status
\* event is ever emitted for a later row, and no retry call is made.
C5_CancelledFirstPass ==
    (W1.stoppedAt >= 0) =>
        /\ W1.stoppedAt < Len(W1.df)
        /\ FirstPassCalls(W1) = [k \in 1..W1.stoppedAt |-> k]
        /\ Len(W1.callLog) = W1.stoppedAt
        /\ Len(W1.statusLog) = W1.stoppedAt
        /\ \A k \in 1..Len(W1.statusLog) :
              /\ W1.statusLog[k].index = W1.df[k].label
              /\ W1.statusLog[k].status \in {"Sent", "Failed"}
        /\ \A p \in (W1.stoppedAt + 1)..Len(W1.df) : FinalStatus(W1, p) = "Pending"

\* cancelled after the first row of three failed, with retries configured:
\* the job has ended and the failed row was not retried
C5_Witness ==
    /\ W1.stoppedAt = 1
    /\ Len(W1.df) = 3
    /\ W1.max_retries > 0
    /\ W1.statusLog[1].status = "Failed"
    /\ W1.pc = "done"

\* ------------------------------------------------------------------ C6
\* C6: stop() may come at any point of run().  Once a cancellation check
\* has seen running = false the worker begins no further sendOne, and at
\* most one send (the one whose check preceded the stop) completes after
\* the stop request.
C6_NoSendAfterObservedStop ==
    /\ [](W1.doneAfterStop <= 1)
    /\ [](W1.sawStop => (~W1.running /\ W1.pc \notin {"fpSend", "rpSend"}))
    /\ [][W1.sawStop => (W1.callLog' = W1.callLog)]_vars

\* a retry send was in flight when stop() came; it completed and the next
\* check saw the stop
C6_Witness ==
    /\ W1.doneAfterStop = 1
    /\ W1.sawStop
    /\ W1.nRetryAttempt >= 1
    /\ W1.stoppedAt = -1
    /\ W1.callLog[Len(W1.callLog)].pass >= 1
    /\ W1.pc = "done"

\* ------------------------------------------------------------------ C7
\* C7: with no cancellation and no setup failure, a row is attempted until
\* it is sent or 1 + maxRetries attempts have failed; so a row failing f <=
\* maxRetries times and then succeeding ends Sent, after at least f
\* retry-pass log lines.
C7_RetriedUntilSent ==
    (W1.pc = "done" /\ W1.exit = "normal" /\ ~W1.sawStop) =>
        /\ Aligned(W1)
        /\ \A p \in 1..Len(W1.df) :
              IF FinalStatus(W1, p) = "Sent"
              THEN /\ Cardinality(CallsOf(W1, p)) = FailuresOf(W1, p) + 1
                   /\ FailuresOf(W1, p) <= W1.max_retries
                   /\ W1.nRetryAttempt >= FailuresOf(W1, p)
              ELSE /\ FinalStatus(W1, p) = "Failed"
                   /\ FailuresOf(W1, p) = 1 + W1.max_retries

\* the instance: 3 rows, maxRetries = 3, the third row fails twice and is
\* sent on its third attempt; all three end Sent after 2 retry passes
C7_Witness ==
    /\ W1.pc = "done" /\ W1.exit = "normal" /\ ~W1.sawStop
    /\ Len(W1.df) = 3
    /\ W1.max_retries = 3
    /\ FailuresOf(W1, 3) = 2
    /\ \A p \in 1..3 : FinalStatus(W1, p) = "Sent"
    /\ W1.nRetryAttempt = 2

\* ------------------------------------------------------------------ C8
\* C8: at most maxRetries retry passes run, a pass starts only on a
\* non-empty failure set, no row gets more than 1 + maxRetries sendOne
\* calls; with maxRetries = 0 there is no retry pass and no retry log line,
\* and a failing row ends Failed.
C8_RetryPassesBounded ==
    /\ W1.nRetryAttempt <= W1.max_retries
    /\ W1.retry_attempt <= W1.max_retries
    /\ \A k \in 1..Len(W1.callLog) : W1.callLog[k].pass <= W1.max_retries
    /\ \A p \in 1..Len(W1.df) : Cardinality(CallsOf(W1, p)) <= 1 + W1.max_retries
    /\ (W1.pc \in {"rpCheck", "rpSend"}) => W1.failed_emails # <<>>
    /\ (W1.max_retries = 0) =>
          /\ W1.nRetrying = 0
          /\ W1.nRetryAttempt = 0
          /\ \A k \in 1..Len(W1.callLog) : W1.callLog[k].pass = 0
          /\ (W1.pc = "done" /\ Aligned(W1)) =>
                \A p \in 1..Len(W1.df) :
                    FailuresOf(W1, p) > 0 => FinalStatus(W1, p) = "Failed"

\* maxRetries = 0, a row failed, the job ended without a retry
C8_Witness ==
    /\ W1.max_retries = 0
    /\ W1.pc = "done"
    /\ W1.exit = "normal"
    /\ Len(W1.df) >= 2
    /\ FinalStatus(W1, 2) = "Failed"
    /\ W1.summary = 1


\* ------------------------------------------------------------------ C9
\* C9: every row of a loaded batch starts Pending, and a row that is Sent
\* never becomes Failed or Pending again while that batch stays loaded,
\* over any sequence of sends, retries, cancellations and further jobs.
C9_SentNeverReverts ==
    [][/\ (loads' # loads) => \A p \in 1..Len(df') : df'[p].Status = "Pending"
       /\ (loads' = loads) =>
             \A p \in 1..Len(df) : df[p].Status = "Sent" => df'[p].Status = "Sent"]_vars

\* ------------------------------------------------------------------ C10
\* C10: every status(rowIndex, s) event carries the zero-based position of
\* its row in the dispatched batch, so the consumer's update changes that
\* row and no other, also for batches from which invalid rows were excluded.
C10_StatusIndexIsPosition ==
    /\ [](\A k \in 1..Len(mainq) :
            mainq[k].kind = "status" => mainq[k].index = mainq[k].pos - 1)
    /\ [][\A p \in 1..Len(df) :
            (loads' = loads /\ df'[p].Status # df[p].Status) =>
                (mainq # <<>> /\ Head(mainq).kind = "status" /\ Head(mainq).pos = p)]_vars

\* ------------------------------------------------------------------ C11
\* C11: at most one dispatch job is active at any time: whatever start,
\* stop and shortcut actions the caller makes, no EmailWorker is created
\* and started while an earlier one has not yet emitted finished().
C11_OneActiveJob ==
    Cardinality({w \in 1..Len(workers) : workers[w].pc # "done"}) <= 1

\* ------------------------------------------- what one call of sendOne did
\* the call has returned to run() with the events of a rejection or a failure
Failure(c, kind) ==
    /\ c.pc = "returned"
    /\ c.status = "Failed"
    /\ c.nStatus = 1
    /\ c.log = kind
    /\ c.result = "False"

\* mail.Send() was called and returned
Submitted(c) == "send" \in c.ops /\ c.raisedAt # "send"

\* ------------------------------------------------------------------ C12
\* C12: sendOne never raises past its boundary: every call returns, with
\* exactly one status event and an outcome run() knows, and an exception
\* raised by any statement (count read, message, attachment, submission,
\* poll) is returned as a failure with status Failed and the error log line.
C12_SendOneNeverRaises ==
    /\ call.pc # "escaped"
    /\ (call.pc = "returned") =>
          /\ call.nStatus = 1
          /\ call.log \in Outcomes([Email |-> call.Email])
          /\ (call.result = "True") <=> Success(call.log)
    /\ (call.pc = "returned" /\ call.raisedAt # "none") => Failure(call, "error")

\* a Count read of the delivery poll raised after the message was submitted,
\* and the call returned failure
C12_Witness ==
    /\ call.pc = "returned"
    /\ call.raisedAt = "poll"
    /\ Submitted(call)
    /\ call.checks >= 2
    /\ Failure(call, "error")

\* ------------------------------------------------------------------ C13
\* C13: a row whose trimmed address is empty, or whose attachment file does
\* not exist when the call tests it, is rejected: status Failed, a log line,
\* failure returned (so run() puts the row in the failure set), and no
\* transport operation made; any transport operation implies both tests
\* passed.
C13_RejectedWithoutTransport ==
    /\ (call.ops # {}) => (call.email # <<>> /\ call.exists = "yes")
    /\ (call.pc \notin {"read", "checkEmail"} /\ Strip(call.Email) = <<>>) =>
          (Failure(call, "noEmail") /\ call.ops = {})
    /\ (call.exists = "no") => (Failure(call, "noAttachment") /\ call.ops = {})
    /\ (call.log \in {"noEmail", "noAttachment"}) =>
          (~Success(call.log) /\ call.log \in Outcomes([Email |-> call.Email]))

\* a row whose address cell holds only white space was rejected
C13_Witness ==
    /\ call.Email = BlankEmail
    /\ Failure(call, "noEmail")
    /\ call.ops = {}

\* ------------------------------------------------------------------ C14
\* C14 (as stated): once message submission raised no exception, sendOne
\* reports Sent and returns success; the poll makes at most 30 checks.
C14_SentIfSubmitted ==
    /\ call.checks <= PollLimit
    /\ (call.pc = "returned" /\ Submitted(call)) =>
          (call.status = "Sent" /\ call.result = "True")

\* C14 (amended): the poll makes at most 30 checks and stops at the first
\* check that finds the outbox empty or the sent count above startCount;
\* if neither the submission nor a poll check raises, sendOne reports Sent
\* and returns success, confirmed or not (also after 30 unconfirmed
\* checks); a poll check that raises makes the call a failure.
C14_SentUnlessPollRaises ==
    /\ call.checks <= PollLimit
    /\ call.sleeps1 = call.checks - (IF call.confirmed \/ call.raisedAt = "poll" THEN 1 ELSE 0)
    /\ (call.pc = "poll") => ~call.confirmed
    /\ (call.pc \in {"report", "returned"} /\ Submitted(call) /\ call.raisedAt = "none") =>
          (call.confirmed \/ call.checks = PollLimit)
    /\ (call.pc = "returned" /\ Submitted(call) /\ call.raisedAt = "none") =>
          (call.status = "Sent" /\ call.nStatus = 1 /\ call.result = "True")
    /\ (call.pc = "returned" /\ Submitted(call) /\ call.raisedAt = "poll") =>
          Failure(call, "error")

\* all 30 checks found the message undelivered and the call reported Sent
C14_Witness ==
    /\ call.pc = "returned"
    /\ call.checks = PollLimit
    /\ ~call.confirmed
    /\ call.status = "Sent"
    /\ call.result = "True"

\* ------------------------------------------------------------------ C15
\* C15: the k-th progress event of a first pass over total rows carries
\* exactly floor(100 * k / total), the quotient in integer arithmetic.
C15_ProgressIsFloor ==
    (call.processed_count >= 1) =>
        call.percent = (100 * call.processed_count) \div call.total

\* ------------------------------------------------------------------ C16
\* C16: a 2-second sleep occurs only between two consecutive retry passes:
\* a job that ran n retry passes slept at most n - 1 times, and did not
\* sleep after its last pass even when rows were still failed.
C16_SleepOnlyBetweenPasses ==
    (W1.pc = "summary" \/ (W1.pc = "done" /\ W1.exit = "normal")) =>
        W1.sleeps2 <= (IF W1.nRetryAttempt = 0 THEN 0 ELSE W1.nRetryAttempt - 1)

\* ------------------------------------------------------------------ C17
\* the positions sendOne was called on in pass j (0: the first pass), in
\* call order, and those of them whose call failed
PassCalls(r, j) ==
    LET of == SelectSeq(r.callLog, LAMBDA c : c.pass = j) IN
    [k \in 1..Len(of) |-> of[k].pos]

FailedIn(r, j) ==
    LET places == {k \in 1..Len(r.callLog) :
                      r.callLog[k].pass = j /\ StatusOfCall(r, k) = "Failed"}
        RECURSIVE InOrder(_)
        InOrder(ks) ==
            IF ks = {} THEN <<>>
            ELSE LET first == CHOOSE k \in ks : \A m \in ks : k <= m
                 IN  <<r.callLog[first].pos>> \o InOrder(ks \ {first})
    IN  InOrder(places)

\* C17: every retry pass attempts the rows that failed in the pass before
\* it, in the order in which they failed there, which is batch order: the
\* calls of pass j are an initial part of the failures of pass j - 1, and
\* their batch positions increase.
C17_RetryOrder ==
    Aligned(W1) /\
    \A j \in 1..W1.max_retries :
        LET calls == PassCalls(W1, j)
            before == FailedIn(W1, j - 1)
        IN  /\ Len(calls) <= Len(before)
            /\ calls = SubSeq(before, 1, Len(calls))
            /\ \A a, b \in 1..Len(calls) : a < b => calls[a] < calls[b]
            /\ (W1.pc = "done" /\ W1.exit = "normal" /\ ~W1.sawStop) => calls = before

\* three rows failed, the second was sent in the first retry pass, and the
\* second retry pass attempted the first and the third, in that order
C17_Witness ==
    /\ Len(W1.df) = 3
    /\ PassCalls(W1, 1) = <<1, 2, 3>>
    /\ FailedIn(W1, 1) = <<1, 3>>
    /\ PassCalls(W1, 2) = <<1, 3>>

\* ------------------------------------------------------------------ C18
\* C18: when the job is done, the summary log line was emitted iff some
\* row's latest status is Failed, and it reports the number of such rows,
\* also for a run cancelled in the first pass or in a retry pass.
C18_SummaryCountsFailedRows ==
    (W1.pc = "done" /\ W1.exit = "normal") =>
        LET failed == {p \in 1..Len(W1.df) : FinalStatus(W1, p) = "Failed"} IN
        W1.summary = (IF failed = {} THEN -1 ELSE Cardinality(failed))

\* ------------------------------------------------------- validate_email
\* the texts after an '@' of the trimmed address (one text per '@')
DomainTexts(email) ==
    LET e == Strip(email) IN
    {SubSeq(e, k + 1, Len(e)) : k \in {k \in 1..Len(e) : e[k] = "@"}}

\* ------------------------------------------------------------------ C19
\* C19 (as stated): every address with zero or more than one '@' is
\* invalid, with a reason that mentions '@'.
C19_ReasonMentionsAt ==
    (call.result # <<>> /\ Count(call.email, "@") # 1) =>
        (~call.result[1] /\ MessageHasAt(call.result[2], call.email))

\* C19 (amended): every address with zero or more than one '@' is invalid;
\* its reason is the empty-address reason when the trimmed text is empty
\* and the bad-format reason otherwise, because the pattern rule comes
\* first; the '@' rule's own reason is returned for no address at all.
C19_WrongAtCountIsBadFormat ==
    (call.result # <<>>) =>
        /\ call.result[2] # "at"
        /\ (Count(call.email, "@") # 1) =>
              /\ ~call.result[1]
              /\ call.result[2] = (IF Strip(call.email) = <<>> THEN "empty" ELSE "format")

\* an address with two '@' was rejected for its format
C19_Witness ==
    /\ Count(call.email, "@") = 2
    /\ call.result = <<FALSE, "format">>

\* ------------------------------------------------------------------ C20
\* C20: an address whose domain part (the trimmed text after '@') starts
\* or ends with '.' is invalid; a valid address matches the pattern, has
\* exactly one '@' and a non-empty local part and domain.
C20_DotAtDomainEdgeInvalid ==
    (call.result # <<>>) =>
        /\ (\E d \in DomainTexts(call.email) : d # <<>> /\ (d[1] = "." \/ d[Len(d)] = ".")) =>
              ~call.result[1]
        /\ call.result[1] =>
              LET e == Strip(call.email) IN
              /\ MatchesPattern(e)
              /\ Count(e, "@") = 1
              /\ \E k \in 2..(Len(e) - 1) : e[k] = "@"

\* an address that matches the pattern was rejected because its domain
\* starts with '.'
C20_Witness ==
    /\ call.result = <<FALSE, "dot">>
    /\ MatchesPattern(Strip(call.email))

\* ------------------------------------------------------------------ C21
\* the batch validator has returned for the sheet in call.df
BatchDone == call.fn = "validate_emails_in_dataframe" /\ call.returned

\* the row with this label is in acceptedRows / has an entry in rejected
Accepted(label) == \E j \in 1..Len(call.valid_df) : call.valid_df[j].label = label
Rejected(label) == \E x \in call.invalid_emails : x.row = label + 2

\* C21: the batch validator keeps every row whose address is exactly the
\* empty string and does not report it, although validate_email rejects that
\* address as empty; every other row is kept iff validate_email accepts its
\* address, and a reported row is not among the kept ones.
C21_OnlyExactlyEmptyExempt ==
    BatchDone =>
        \A k \in 1..Len(call.df) :
            LET row == call.df[k] IN
            /\ row.Email = <<>> =>
                    /\ Accepted(row.label) /\ ~Rejected(row.label)
                    /\ validate_email(row.Email) = <<FALSE, "empty">>
            /\ row.Email # <<>> =>
                    (Accepted(row.label) <=> validate_email(row.Email)[1])
            /\ Rejected(row.label) <=> ~Accepted(row.label)

\* C21 (amended): the batch validator keeps every row whose trimmed address
\* is empty (the empty cell and the white-space-only cell alike) and does not
\* report it, although validate_email rejects that address as empty; every
\* other row is kept iff validate_email accepts its address, and a row is
\* reported iff it is not kept.
C21_BlankAddressExempt ==
    BatchDone =>
        \A k \in 1..Len(call.df) :
            LET row == call.df[k] IN
            /\ Strip(row.Email) = <<>> =>
                    /\ Accepted(row.label) /\ ~Rejected(row.label)
                    /\ validate_email(row.Email) = <<FALSE, "empty">>
            /\ Strip(row.Email) # <<>> =>
                    (Accepted(row.label) <=> validate_email(row.Email)[1])
            /\ Rejected(row.label) <=> ~Accepted(row.label)

\* a three-row sheet went through: one white-space-only cell kept, one empty
\* cell kept, one bad address reported
C21_Witness ==
    /\ BatchDone
    /\ \E i, j, k \in 1..Len(call.df) :
        /\ call.df[i].Email = BlankEmail /\ Accepted(call.df[i].label)
        /\ call.df[j].Email = EmptyEmail /\ Accepted(call.df[j].label)
        /\ call.df[k].Email = BadEmail /\ Rejected(call.df[k].label)
    /\ Len(call.valid_df) = 2

\* ------------------------------------------------------------------ C22
\* the rowNumber of every entry the batch validator reports is the zero-based
\* index of its row in the sheet, plus 2
C22_RejectedRowNumber ==
    BatchDone =>
        \A k \in 1..Len(call.df) :
            ~Accepted(call.df[k].label) =>
                \E x \in call.invalid_emails :
                    /\ x.row = (k - 1) + 2
                    /\ x.email = Strip(call.df[k].Email)

\* C22: every row number shown to the user is the row's zero-based batch
\* index + 2: the rowNumber of each entry the batch validator reports, and
\* the row number in the missing-address log line of _send_single_email.
C22_RowNumberIsIndexPlusTwo ==
    /\ C22_RejectedRowNumber
    /\ \A w \in 1..Len(workers) :
        LET r == workers[w] IN
        (r.traced /\ r.lastLog = "noEmail") =>
            r.logRow = (r.callLog[Len(r.callLog)].pos - 1) + 2

\* ------------------------------------------------------------------ C23
\* the places where the placeholder occurs in a template
Occurrences(t) ==
    {i \in 1..(Len(t) - Len(Token) + 1) : SubSeq(t, i, i + Len(Token) - 1) = Token}

\* out is t with the text x in the place of every occurrence of the
\* placeholder: each character outside the occurrences and each copy of x is
\* found at its shifted place, and the length adds up
Expanded(t, x, out) ==
    LET occ == Occurrences(t)
        before(i) == Cardinality({o \in occ : o < i})
        place(i) == i + before(i) * (Len(x) - Len(Token))
        covered(i) == \E o \in occ : o <= i /\ i < o + Len(Token)
    IN  /\ Len(out) = Len(t) + Cardinality(occ) * (Len(x) - Len(Token))
        /\ \A i \in 1..Len(t) : ~covered(i) => out[place(i)] = t[i]
        /\ \A o \in occ : \A k \in 1..Len(x) : out[place(o) + k - 1] = x[k]

\* the surname as the claim derives it from a full name
DerivedSurname(name) ==
    IF \E i \in 1..Len(name) : name[i] = ","
    THEN Strip(BeforeComma(name))
    ELSE Strip(name)

TextsDone == call.fn = "texts" /\ call.pc = "body"

\* C23: the subject is the subject template with every occurrence of
\* {{fullname}} replaced by the recipient's full name as the row holds it,
\* and the body handed to the renderer is the body template with every
\* occurrence replaced by the derived surname.
C23_FullNameInSubject ==
    TextsDone =>
        /\ Expanded(call.self_subject, call.FullName, call.subject)
        /\ Expanded(call.self_body_template, DerivedSurname(call.FullName), call.body_raw)

\* C23 (amended): the subject gets the full name trimmed of surrounding white
\* space; the body gets the derived surname (the text before the first
\* comma, trimmed, or the trimmed full name when there is no comma).
C23_TrimmedFullNameInSubject ==
    TextsDone =>
        /\ Expanded(call.self_subject, Strip(call.FullName), call.subject)
        /\ Expanded(call.self_body_template, DerivedSurname(call.FullName), call.body_raw)
        /\ call.FullName = <<"D", "e", "l", "a", " ", "C", "r", "u", "z", ",", " ", "J", "u", "a", "n">> =>
                call.surname = <<"D", "e", "l", "a", " ", "C", "r", "u", "z">>
        /\ call.FullName = <<"J", "u", "a", "n", " ", "D", "e", "l", "a", " ", "C", "r", "u", "z">> =>
                call.surname = call.FullName

\* "Dela Cruz, Juan" went into a subject and a body that both hold the
\* placeholder twice
C23_Witness ==
    /\ TextsDone
    /\ call.FullName = <<"D", "e", "l", "a", " ", "C", "r", "u", "z", ",", " ", "J", "u", "a", "n">>
    /\ Cardinality(Occurrences(call.self_subject)) = 2
    /\ Cardinality(Occurrences(call.self_body_template)) = 2
    /\ call.subject = call.FullName \o call.FullName
    /\ call.body_raw = call.surname \o <<",", " ">> \o call.surname
    /\ Len(call.surname) = 9

\* ------------------------------------------------------------------ C24
\* the places where the text lit stands in s, letter for letter
Places(s, lit) ==
    {i \in 1..(Len(s) - Len(lit) + 1) : SubSeq(s, i, i + Len(lit) - 1) = lit}

\* the renderer has made the transformed content of the fragment in call
Transformed ==
    call.fn = "build_outlook_safe_html" /\ call.pc \in {"wrapped", "returned"}

\* the spacing the renderer was asked for, no less than 0
Spacing == IF call.para_spacing_px > 0 THEN call.para_spacing_px ELSE 0

\* the fragment is a sequence of closed, non-nested blocks and nothing else
OnlyBlocks ==
    /\ call.parts # <<>>
    /\ \A k \in 1..Len(call.parts) : call.parts[k] \in ContentBlocks \cup BlankBlocks

\* C24: for a fragment made of non-nested, closed paragraph-like blocks
\* without line breaks, each non-empty block becomes exactly one content row
\* immediately followed by one spacer row of the given height, and each
\* empty or white-space-only block becomes exactly one spacer row and no
\* content row: as many content rows as non-empty blocks, as many spacer rows
\* as blocks.
C24_RowsPerBlock ==
    (Transformed /\ OnlyBlocks) =>
        LET rows == Places(call.inner, ContentRowOpen)
            spacers == Places(call.inner, SpacerRow(Spacing))
            allSpacers == Places(call.inner, Chars("<tr><td height="))
            filled == {k \in 1..Len(call.parts) : call.parts[k] \in ContentBlocks}
        IN  /\ Cardinality(rows) = Cardinality(filled)
            /\ Cardinality(spacers) = Len(call.parts)
            /\ allSpacers = spacers
            /\ Places(call.inner, Chars("<tr>")) = rows \cup spacers
            /\ \A i \in rows :
                    LET close == Least({c \in Places(call.inner, ContentRowClose) : c > i})
                    IN  close + Len(ContentRowClose) \in spacers

\* two blocks went through: a container with content and a blank paragraph,
\* at spacing 12
C24_Witness ==
    /\ Transformed /\ OnlyBlocks
    /\ call.parts = <<Chars("<DIV class=x>c d</DIV>"), Chars("<p> \n</p>")>>
    /\ call.para_spacing_px = 12
    /\ Cardinality(Places(call.inner, ContentRowOpen)) = 1
    /\ Cardinality(Places(call.inner, SpacerRow(12))) = 2
    /\ call.made = 2

\* ------------------------------------------------------------------ C25
\* how often a shell marker occurs in a text, in any case: an opening marker
\* is the name followed by something that is no word character
Marker(s, lit) ==
    Cardinality({i \in 1..Len(s) :
        /\ LitAt(s, i, lit)
        /\ (lit[Len(lit)] # ">" /\ i + Len(lit) <= Len(s)) => s[i + Len(lit)] \notin WordChars})

ShellMarkers ==
    {Chars("<!doctype"), Chars("<html"), Chars("</html>"), Chars("<head"),
     Chars("</head>"), Chars("<body"), Chars("</body>")}

\* C25: for every input fragment (a whole document, a bare fragment, the
\* empty text, text that holds shell markers itself) the output holds each
\* shell marker (doctype, html, head and body, opening and closing) exactly
\* once.
C25_ShellMarkersOnce ==
    (call.fn = "build_outlook_safe_html" /\ call.pc = "returned") =>
        \A lit \in ShellMarkers : Marker(call.wrapped, lit) = 1

\* ------------------------------------------------------------------ C26
\* the line breaks of a text
Breaks(s) == Matches("break", s)

\* C26: the renderer puts a spacer after single line breaks iff the content
\* had no paragraph-like block after the containers were normalised and the
\* rewrites of breaks and paragraphs made no spacer construct; then exactly
\* one spacer of the given height follows every line break, and otherwise
\* the line breaks are left as they are.  A fragment without blocks and line
\* breaks reaches the shell unchanged.
C26_FallbackIffNothingMade ==
    Transformed =>
        LET fallback == ~call.had_paragraphs /\ call.made = 0
            tables == Places(call.inner, SpacerTable(Spacing))
        IN  /\ fallback =>
                /\ Cardinality(Breaks(call.inner)) = Cardinality(Breaks(call.before7))
                /\ Cardinality(tables) = Cardinality(Breaks(call.before7))
                /\ \A i \in Breaks(call.inner) : BreakEnd(call.inner, i) + 1 \in tables
            /\ ~fallback => call.inner = call.before7
            /\ (~call.whole /\ ~call.had_paragraphs /\ Breaks(call.editor_html) = {}
                    /\ Matches("divClose", call.editor_html) = {}) =>
                    call.inner = call.editor_html

\* ------------------------------------------------------------------ C27
\* C27: while connecting the worker makes at most 5 connection attempts and
\* none after the first that succeeds; it pauses 3 seconds only between two
\* attempts, so not after the fifth failed one; it goes on to the folders iff
\* an attempt succeeded.
C27_PauseOnlyBetweenAttempts ==
    /\ [](W1.dispatches <= ConnectAttempts)
    /\ [][W1.outlook => W1'.dispatches = W1.dispatches]_vars
    /\ []((W1.pc # "connect" /\ W1.dispatches > 0) => W1.sleeps3 = W1.dispatches - 1)
    /\ [](W1.pc = "folders" => W1.outlook)
    /\ [](W1.exit = "connect" => W1.dispatches = ConnectAttempts)
    /\ [][(W1.pc = "afterConnect" /\ W1.outlook) =>
            (W1'.pc \in {"afterConnect", "folders"} \/ W1'.exit = "fatal")]_vars

\* ------------------------------------------------------------------ C28
\* no call is made on a row after a call on it that reported Sent, and every
\* call reports one status for its own row
NoCallAfterSent(r) ==
    /\ Len(r.statusLog) = Len(r.callLog)
    /\ \A k \in 1..Len(r.callLog) :
        /\ r.statusLog[k].index = r.df[r.callLog[k].pos].label
        /\ \A j \in 1..(k - 1) :
            r.callLog[j].pos = r.callLog[k].pos =>
                (r.statusLog[j].status = "Failed" /\ r.callLog[j].pass < r.callLog[k].pass)

\* how often the message of the row at position p was submitted
Submissions(r, p) == Cardinality({k \in 1..Len(r.submitLog) : r.submitLog[k] = p})

\* C28 (as stated): retry passes call _send_single_email only for rows whose
\* most recent attempt failed: after a row's status Sent the job makes no
\* further call and emits no further status for that row, so no recipient is
\* sent the message twice by one job.
C28_NoRecipientSentTwice ==
    /\ NoCallAfterSent(W1)
    /\ \A p \in 1..Len(W1.df) : Submissions(W1, p) <= 1

\* C28 (amended): after a row's status Sent the job makes no further call
\* and emits no further status for that row, so a message reported Sent is
\* not sent again; a row is submitted once more only after a submission that
\* was reported Failed, at most once per pass.
C28_NoSendAfterSent ==
    /\ NoCallAfterSent(W1)
    /\ \A p \in 1..Len(W1.df) :
        /\ Submissions(W1, p) <= Cardinality(CallsOf(W1, p))
        /\ Submissions(W1, p) <=
                FailuresOf(W1, p) + (IF FinalStatus(W1, p) = "Sent" THEN 1 ELSE 0)
        /\ Cardinality({k \in CallsOf(W1, p) : StatusOfCall(W1, k) = "Sent"}) <= 1

\* the first row's message was submitted and reported Failed in the first
\* pass, submitted again and reported Sent in the retry pass; the second
\* row was sent in the first pass and the retry pass ran without it
C28_Witness ==
    /\ W1.pc = "done"
    /\ Len(W1.df) = 2
    /\ FailuresOf(W1, 1) = 1 /\ FinalStatus(W1, 1) = "Sent"
    /\ Cardinality(CallsOf(W1, 1)) = 2
    /\ Submissions(W1, 1) = 2
    /\ Cardinality(CallsOf(W1, 2)) = 1 /\ FinalStatus(W1, 2) = "Sent"
    /\ W1.nRetryAttempt = 1

\* ------------------------------------------------------------------ C29
\* C29: every call of _send_single_email emits exactly one status event, for
\* the index it was given, Sent iff it returns success and Failed iff it
\* returns failure, followed by exactly one log line, on every path
\* (rejection, transport exception, confirmed and unconfirmed send); nothing
\* is emitted before the call is decided.
C29_OneStatusThenOneLog ==
    call.fn = "_send_single_email" =>
        /\ call.pc # "escaped"
        /\ call.pc # "returned" => call.events = <<>>
        /\ call.pc = "returned" =>
            /\ call.result \in {"True", "False"}
            /\ call.events =
                    <<StatusEvent(call, IF call.result = "True" THEN "Sent" ELSE "Failed"),
                      LogEvent>>

\* mail.Attachments.Add raised for the row with index 2: one Failed status
\* for index 2, then the log line
C29_Witness ==
    /\ call.fn = "_send_single_email"
    /\ call.pc = "returned"
    /\ call.raisedAt = "attach"
    /\ call.index = 2
    /\ Len(call.events) = 2
    /\ call.events[1] = [signal |-> "status_updated", index |-> 2, status |-> "Failed"]
    /\ call.events[2].signal = "log_updated"
    /\ call.result = "False"

\* ------------------------------------------------------------------ C30
\* the paragraph-like markers left in a text: openings and closings of
\* paragraphs and of generic containers
BlockMarkers(s) ==
    {i \in 1..Len(s) :
        \/ OpenTagEnd(s, i, <<"p">>, TRUE) > 0
        \/ OpenTagEnd(s, i, Chars("div"), TRUE) > 0
        \/ LitAt(s, i, Chars("</p>"))
        \/ LitAt(s, i, Chars("</div>"))}

\* the pieces whose containers are balanced
Balanced == ContentBlocks \cup BlankBlocks \cup
            {Chars("a"), Chars("<div><p>e</p></div>"), Chars("<br>"), Chars("<BR />\n")}

\* C30: for every fragment whose block containers are balanced, nested ones
\* included, the transformed content holds no paragraph-like opening or
\* closing marker any more.
C30_NoBlockMarkerLeft ==
    (Transformed /\ \A k \in 1..Len(call.parts) : call.parts[k] \in Balanced) =>
        BlockMarkers(call.inner) = {}

====
